---------------------------- MODULE Spec2Model ----------------------------
(***************************************************************************)
(* Model of the literature repository (src/db_manager.py) and of the       *)
(* image-metadata normalizer and service (src/services/                    *)
(* literature_service.py).                                                 *)
(*                                                                         *)
(* The specifications share the variables; the first three are:            *)
(*   SpecNorm  the normalizer as a pure function of (image_files, prior    *)
(*             metadata, payload);                                         *)
(*   SpecImg   ingestion, getImageMetadata and updateImageMetadata on one  *)
(*             record, step by step through the repository's               *)
(*             read-transform-write;                                       *)
(*   Spec      the repository's tag and field operations on two records,   *)
(*             step by step, with process crashes.                         *)
(***************************************************************************)
EXTENDS Integers, Sequences, FiniteSets, TLC

VARIABLES
    nfiles,     \* SpecNorm: image_files argument of the normalizer
    nprior,     \* SpecNorm: existing_metadata argument
    npayload,   \* SpecNorm: payload argument
    nresult,    \* SpecNorm: outcome of the normalize call
    nagain,     \* SpecNorm: outcome of normalizing the result once more
    npc,        \* SpecNorm: "input" | "normalized" | "renormalized"
    disk,       \* record id -> the storage unit <db>/<id>: directory, analysis.json, original.pdf
    tmpfile,    \* whether the temporary upload file exists
    pc,         \* caller -> position in its running call ("idle" between calls)
    call,       \* caller -> its running (or last) call: operation and arguments
    loc,        \* caller -> local variables of the running call
    ret,        \* caller -> outcome of its last finished call
    pre,        \* history: caller -> the disk when its call started
    wrote,      \* history: caller -> ids whose analysis.json its call opened for writing
    tagcase,    \* SpecTags: a tag list, the arguments of a global tag operation, its result
    analysis    \* SpecAnalyze: the analyze_text_with_deepseek call: arguments, loop state, result

vars == <<nfiles, nprior, npayload, nresult, nagain, npc, disk, tmpfile, pc, call, loc, ret, pre, wrote, tagcase, analysis>>
normVars == <<nfiles, nprior, npayload, nresult, nagain, npc>>
storeVars == <<disk, tmpfile, pc, call, loc, ret, pre, wrote>>
pureVars == <<normVars, tagcase, analysis>>

(***************************************************************************)
(* Bounds of the model.                                                    *)
(***************************************************************************)
MaxImages == 3
MaxPatchLen == 2
MaxRecordImages == 2

(***************************************************************************)
(* Python values.  A dict is a TLA+ record whose DOMAIN is its key set;    *)
(* None is NoneVal; a value that is not a dict is NotADict.                *)
(***************************************************************************)
NoneVal == [isNone |-> TRUE]
NotADict == [notDict |-> TRUE]

IsDict(x) == "isNone" \notin DOMAIN x /\ "notDict" \notin DOMAIN x

\* dict.get(key) or default, for string values ("" and a missing key are falsy)
GetOr(d, key, default) ==
    IF key \in DOMAIN d /\ d[key] # "" THEN d[key] ELSE default

\* str.strip() on the sample strings of the model
Strip(s) ==
    CASE s = " Cover " -> "Cover"
      [] s = " 9 " -> "9"
      [] s = " L " -> "L"
      [] s = " " -> ""
      [] OTHER -> s

\* str.lower() on the sample strings of the model
Lower(s) ==
    CASE s = "Cover" -> "cover"
      [] s = " Cover " -> " cover "
      [] s = "B" -> "b"
      [] OTHER -> s

Digits == <<"0", "1", "2", "3", "4", "5", "6", "7", "8", "9">>

\* str(n) for a natural number n
RECURSIVE ToStr(_)
ToStr(n) ==
    IF n < 10 THEN Digits[n + 1] ELSE ToStr(n \div 10) \o Digits[(n % 10) + 1]

\* the filename extract_images_from_pdf gives its counter-th saved image
ImageName(counter) == "fig" \o ToStr(counter) \o ".png"

\* the list extract_images_from_pdf returns when it saves n images
ImageFiles(n) == [i \in 1..n |-> ImageName(i)]

ALLOWED_IMAGE_CATEGORIES == {"figure", "subfigure", "cover", "ignore"}

(***************************************************************************)
(* LiteratureService: the image-metadata helpers.                          *)
(***************************************************************************)
\* _normalize_category
NormalizeCategory(category_value) ==
    IF category_value = "" THEN "figure"
    ELSE IF Lower(Strip(category_value)) \notin ALLOWED_IMAGE_CATEGORIES THEN "figure"
    ELSE Lower(Strip(category_value))

\* _make_metadata_entry(filename, index, existing); index is 0-based
MakeMetadataEntry(filename, index, existing) ==
    LET has == existing # NoneVal
        fid0 == IF has THEN Strip(GetOr(existing, "figure_id", "")) ELSE ""
        label == IF has THEN Strip(GetOr(existing, "label", "")) ELSE ""
        category == IF has THEN GetOr(existing, "category", "figure") ELSE "figure"
        fid1 == IF fid0 = "" THEN ToStr(index + 1) ELSE fid0
        normalized_category ==
            IF category \in ALLOWED_IMAGE_CATEGORIES THEN category ELSE "figure"
        fid2 == IF normalized_category = "ignore" THEN "" ELSE fid1
    IN  [filename |-> filename, figure_id |-> fid2, label |-> label,
         category |-> normalized_category]

\* the dict comprehension {entry.get("filename"): entry for entry in list if
\* isinstance(entry, dict)} looked up at filename: the last such entry, or None
RECURSIVE LookupFrom(_, _, _)
LookupFrom(list, filename, i) ==
    IF i = 0 THEN NoneVal
    ELSE IF IsDict(list[i]) /\ "filename" \in DOMAIN list[i]
            /\ list[i]["filename"] = filename
         THEN list[i]
         ELSE LookupFrom(list, filename, i - 1)

ExistingLookup(list, filename) == LookupFrom(list, filename, Len(list))

\* _default_image_metadata(image_files, existing_metadata)
DefaultImageMetadata(image_files, existing_metadata) ==
    [i \in 1..Len(image_files) |->
        MakeMetadataEntry(image_files[i], i - 1,
                          ExistingLookup(existing_metadata, image_files[i]))]

\* _enforce_sequential_figure_ids, one iteration of the loop: the figure_id
\* the entry gets and the counter and group id after it
MutEnforceStepNoGroupReset(category, next_index, current_group_id) ==
    IF category \in {"cover", "ignore"}
    THEN [figure_id |-> "", next_index |-> next_index,
          current_group_id |-> current_group_id]
    ELSE IF category = "subfigure"
    THEN IF current_group_id = ""
         THEN [figure_id |-> ToStr(next_index), next_index |-> next_index + 1,
               current_group_id |-> ToStr(next_index)]
         ELSE [figure_id |-> current_group_id, next_index |-> next_index,
               current_group_id |-> current_group_id]
    ELSE [figure_id |-> ToStr(next_index), next_index |-> next_index + 1,
          current_group_id |-> ToStr(next_index)]

MutEnforceStepFigureOpensNoGroup(category, next_index, current_group_id) ==
    IF category \in {"cover", "ignore"}
    THEN [figure_id |-> "", next_index |-> next_index, current_group_id |-> ""]
    ELSE IF category = "subfigure"
    THEN IF current_group_id = ""
         THEN [figure_id |-> ToStr(next_index), next_index |-> next_index + 1,
               current_group_id |-> ToStr(next_index)]
         ELSE [figure_id |-> current_group_id, next_index |-> next_index,
               current_group_id |-> current_group_id]
    ELSE [figure_id |-> ToStr(next_index), next_index |-> next_index + 1,
          current_group_id |-> ""]

EnforceStep(category, next_index, current_group_id) ==
    IF category \in {"cover", "ignore"}
    THEN [figure_id |-> "", next_index |-> next_index, current_group_id |-> ""]
    ELSE IF category = "subfigure"
    THEN IF current_group_id = ""
         THEN [figure_id |-> ToStr(next_index), next_index |-> next_index + 1,
               current_group_id |-> ToStr(next_index)]
         ELSE [figure_id |-> current_group_id, next_index |-> next_index,
               current_group_id |-> current_group_id]
    ELSE [figure_id |-> ToStr(next_index), next_index |-> next_index + 1,
          current_group_id |-> ToStr(next_index)]

\* _enforce_sequential_figure_ids: the loop from entry i on
RECURSIVE EnforceFrom(_, _, _, _)
EnforceFrom(metadata, i, next_index, current_group_id) ==
    IF i > Len(metadata) THEN metadata
    ELSE LET step == EnforceStep(GetOr(metadata[i], "category", "figure"),
                                 next_index, current_group_id)
         IN  EnforceFrom([metadata EXCEPT ![i].figure_id = step.figure_id],
                         i + 1, step.next_index, step.current_group_id)

\* the numbering pass left out: the ids of the loop, among them the ones the
\* caller sent, are returned
MutEnforceSkipped(metadata) == metadata

\* _enforce_sequential_figure_ids(metadata)
EnforceSequentialFigureIds(metadata) == EnforceFrom(metadata, 1, 1, "")

\* outcomes of a call: a value or a raised exception
Ok(v) == [ok |-> TRUE, val |-> v]
Raise(e) == [ok |-> FALSE, err |-> e]

\* the loop of _normalize_image_metadata_payload that fills provided_map, from
\* item i on: the first item that is no dict or has no filename raises
RECURSIVE ProvidedMapFrom(_, _, _)
ProvidedMapFrom(items, i, acc) ==
    IF i > Len(items) THEN Ok(acc)
    ELSE IF ~IsDict(items[i]) THEN Raise("InvalidUpload:item_not_object")
    ELSE IF GetOr(items[i], "filename", "") = ""
         THEN Raise("InvalidUpload:missing_filename")
    ELSE ProvidedMapFrom(items, i + 1,
            Append(acc,
                [filename |-> items[i]["filename"],
                 figure_id |-> Strip(GetOr(items[i], "figure_id", "")),
                 label |-> Strip(GetOr(items[i], "label", "")),
                 category |-> NormalizeCategory(GetOr(items[i], "category", ""))]))

\* existing_lookup.get(filename) or provided_map.get(filename): the stored
\* entry wins over the patch
MutResolvePriorFirst(provided, existing_metadata, filename) ==
    IF ExistingLookup(existing_metadata, filename) # NoneVal
    THEN ExistingLookup(existing_metadata, filename)
    ELSE ExistingLookup(provided, filename)

\* the fallback to the stored entry forgotten
MutResolveProvidedOnly(provided, existing_metadata, filename) ==
    ExistingLookup(provided, filename)

\* provided_map.get(filename) or existing_lookup.get(filename)
ResolveBase(provided, existing_metadata, filename) ==
    IF ExistingLookup(provided, filename) # NoneVal
    THEN ExistingLookup(provided, filename)
    ELSE ExistingLookup(existing_metadata, filename)

\* the loop of _normalize_image_metadata_payload over image_files, from
\* position idx (1-based here) on
\* the cover_seen test forgotten
RECURSIVE MutNormalizeLoopNoCoverCheck(_, _, _, _, _, _)
MutNormalizeLoopNoCoverCheck(image_files, provided, existing_metadata, idx, cover_seen, normalized) ==
    IF idx > Len(image_files) THEN Ok(EnforceSequentialFigureIds(normalized))
    ELSE LET entry == MakeMetadataEntry(image_files[idx], idx - 1,
                         ResolveBase(provided, existing_metadata, image_files[idx]))
         IN  MutNormalizeLoopNoCoverCheck(image_files, provided,
                 existing_metadata, idx + 1, cover_seen, Append(normalized, entry))

RECURSIVE NormalizeLoop(_, _, _, _, _, _)
NormalizeLoop(image_files, provided, existing_metadata, idx, cover_seen, normalized) ==
    IF idx > Len(image_files) THEN Ok(EnforceSequentialFigureIds(normalized))
    ELSE LET entry == MakeMetadataEntry(image_files[idx], idx - 1,
                         ResolveBase(provided, existing_metadata, image_files[idx]))
         IN  IF entry.category = "cover"
             THEN IF cover_seen
                  THEN Raise("InvalidUpload:second_cover")
                  ELSE NormalizeLoop(image_files, provided, existing_metadata,
                           idx + 1, TRUE,
                           Append(normalized, [entry EXCEPT !.figure_id = ""]))
             ELSE IF entry.category \in {"figure", "subfigure"} /\ entry.figure_id = ""
             THEN NormalizeLoop(image_files, provided, existing_metadata,
                      idx + 1, cover_seen,
                      Append(normalized, [entry EXCEPT !.figure_id = ToStr(idx)]))
             ELSE NormalizeLoop(image_files, provided, existing_metadata,
                      idx + 1, cover_seen, Append(normalized, entry))

\* a payload is [kind |-> "none"] (None or another falsy value), [kind |->
\* "object"] (a truthy value that is no list) or [kind |-> "list", items |-> s]
PayloadNone == [kind |-> "none"]
PayloadObject == [kind |-> "object"]
PayloadList(items) == [kind |-> "list", items |-> items]

\* payload = payload or []
PayloadItems(payload) ==
    IF payload.kind = "list" THEN payload.items ELSE <<>>

\* _normalize_image_metadata_payload(payload, image_files, existing_metadata)
NormalizeImageMetadataPayload(payload, image_files, existing_metadata) ==
    IF Len(image_files) = 0 THEN Ok(<<>>)
    ELSE IF payload.kind = "object" THEN Raise("InvalidUpload:not_a_list")
    ELSE LET provided == ProvidedMapFrom(PayloadItems(payload), 1, <<>>)
         IN  IF ~provided.ok THEN provided
             ELSE NormalizeLoop(image_files, provided.val, existing_metadata,
                                1, FALSE, <<>>)


(***************************************************************************)
(* SpecNorm: the normalizer applied to bounded inputs.                     *)
(***************************************************************************)
\* what a caller may send for one image: no "category" key, a category that
\* needs strip() and lower() together with a figure_id and a label, "ignore"
ItemsFor(filename) ==
    { [filename |-> filename],
      [filename |-> filename, category |-> " Cover ", figure_id |-> " 9 ",
       label |-> " L "],
      [filename |-> filename, category |-> "ignore"] }

\* items of a payload over image_files: the above for each image, a cover for a
\* file the record does not have, an item without filename, an item that is no
\* dict
PayloadItemsOver(image_files) ==
    UNION { ItemsFor(image_files[i]) : i \in 1..Len(image_files) }
      \cup { [filename |-> "zz.png", category |-> "cover"],
             [category |-> "cover"],
             NotADict }

SeqsUpTo(S, n) == UNION { [1..k -> S] : k \in 0..n }

Payloads(image_files) ==
    { PayloadNone, PayloadObject }
      \cup { PayloadList(items) :
               items \in SeqsUpTo(PayloadItemsOver(image_files), MaxPatchLen) }

\* what a record may hold for one image before the call: nothing, a cover
\* entry with an id and a label, or a subfigure entry
PriorKinds == {"none", "cover", "subfigure"}

PriorEntry(filename, kind) ==
    IF kind = "cover"
    THEN [filename |-> filename, figure_id |-> "9", label |-> "L",
          category |-> "cover"]
    ELSE IF kind = "subfigure"
    THEN [filename |-> filename, figure_id |-> "", label |-> "",
          category |-> "subfigure"]
    ELSE NoneVal

IsEntry(x) == x # NoneVal

Priors(image_files) ==
    { SelectSeq([i \in 1..Len(image_files) |-> PriorEntry(image_files[i], k[i])],
                IsEntry) :
        k \in [1..Len(image_files) -> PriorKinds] }

NotRun == Raise("not_run")

NoTagCase == [pc |-> "unused"]
TagCaseUnused == tagcase = NoTagCase

NoAnalysis == [pc |-> "unused"]
AnalysisUnused == analysis = NoAnalysis

NormInputs ==
    /\ nfiles \in { ImageFiles(n) : n \in 0..MaxImages }
    /\ nprior \in Priors(nfiles)
    /\ npayload \in Payloads(nfiles)
    /\ nresult = NotRun
    /\ nagain = NotRun
    /\ npc = "input"

\* normalize(image_files, prior, payload)
NormApply ==
    /\ npc = "input"
    /\ nresult' = NormalizeImageMetadataPayload(npayload, nfiles, nprior)
    /\ npc' = "normalized"
    /\ UNCHANGED <<nfiles, nprior, npayload, nagain>>

\* normalize(image_files, the list just returned, empty patch)
NormAgain ==
    /\ npc = "normalized"
    /\ nresult.ok
    /\ nagain' = NormalizeImageMetadataPayload(PayloadList(<<>>), nfiles, nresult.val)
    /\ npc' = "renormalized"
    /\ UNCHANGED <<nfiles, nprior, npayload, nresult>>

StoreUnused ==
    /\ disk = <<>>
    /\ tmpfile = FALSE
    /\ pc = <<>>
    /\ call = <<>>
    /\ loc = <<>>
    /\ ret = <<>>
    /\ pre = <<>>
    /\ wrote = <<>>

NextNorm ==
    \/ NormApply /\ UNCHANGED <<storeVars, tagcase, analysis>>
    \/ NormAgain /\ UNCHANGED <<storeVars, tagcase, analysis>>

InitNorm == NormInputs /\ StoreUnused /\ TagCaseUnused /\ AnalysisUnused

SpecNorm == InitNorm /\ [][NextNorm]_vars


(***************************************************************************)
(* Properties of the normalizer (checked under SpecNorm).                  *)
(***************************************************************************)
Cats(list) == [i \in 1..Len(list) |-> list[i].category]
FigureIds(list) == [i \in 1..Len(list) |-> list[i].figure_id]

\* the payload passes the shape validation: a list (or nothing) whose items
\* are all objects with a filename
WellFormedPayload(payload) ==
    /\ payload.kind # "object"
    /\ \A j \in 1..Len(PayloadItems(payload)) :
          /\ IsDict(PayloadItems(payload)[j])
          /\ "filename" \in DOMAIN PayloadItems(payload)[j]

\* category a caller-supplied item asks for / a stored entry carries
AskedCategory(item) ==
    LET c == IF "category" \in DOMAIN item THEN Lower(Strip(item.category)) ELSE ""
    IN  IF c \in {"subfigure", "cover", "ignore"} THEN c ELSE "figure"

StoredCategory(entry) ==
    IF "category" \in DOMAIN entry /\ entry.category \in {"subfigure", "cover", "ignore"}
    THEN entry.category ELSE "figure"

LastIndex(S) == CHOOSE j \in S : \A k \in S : k <= j

\* category of the candidate resolved for filename: the patch entry for it if
\* the patch has one, else the prior entry, else the default (figure)
CandidateCategory(payload, prior, filename) ==
    LET items == PayloadItems(payload)
        inPatch == { j \in 1..Len(items) :
                       "filename" \in DOMAIN items[j] /\ items[j].filename = filename }
        inPrior == { j \in 1..Len(prior) :
                       "filename" \in DOMAIN prior[j] /\ prior[j].filename = filename }
    IN  IF inPatch # {} THEN AskedCategory(items[LastIndex(inPatch)])
        ELSE IF inPrior # {} THEN StoredCategory(prior[LastIndex(inPrior)])
        ELSE "figure"

CoverCandidates(payload, image_files, prior) ==
    { i \in 1..Len(image_files) :
        CandidateCategory(payload, prior, image_files[i]) = "cover" }

\* C5: with a well-formed payload, normalize fails (InvalidUpload, the
\* service's InvalidArgument) exactly when two of the candidates resolved over
\* image_files are cover; otherwise it succeeds, the cover entry of the result
\* is the cover candidate and its figure_id is empty.
C5_CoverExclusivity ==
    (npc # "input" /\ WellFormedPayload(npayload)) =>
        IF Cardinality(CoverCandidates(npayload, nfiles, nprior)) >= 2
        THEN nresult = Raise("InvalidUpload:second_cover")
        ELSE /\ nresult.ok
             /\ \A i \in 1..Len(nresult.val) :
                   /\ (nresult.val[i].category = "cover")
                        <=> (i \in CoverCandidates(npayload, nfiles, nprior))
                   /\ nresult.val[i].category = "cover"
                        => nresult.val[i].figure_id = ""

\* a cover kept from the prior metadata and a second one asked by the patch
C5_Witness ==
    /\ npc = "normalized"
    /\ WellFormedPayload(npayload)
    /\ Cardinality(CoverCandidates(npayload, nfiles, nprior)) = 2
    /\ Len(nprior) = 1
    /\ Len(PayloadItems(npayload)) = 1
    /\ nresult = Raise("InvalidUpload:second_cover")

\* a single cover, supplied by the patch with a figure_id of its own
C5_WitnessOneCover ==
    /\ npc = "normalized"
    /\ nresult.ok
    /\ nprior = <<>>
    /\ \E i \in 1..Len(nresult.val) :
          nresult.val[i].category = "cover" /\ nresult.val[i].figure_id = ""

\* Invariant I3 of a metadata list
I3(list) ==
    /\ \A i \in 1..Len(list) :
          list[i].category \in {"cover", "ignore"} => list[i].figure_id = ""
    /\ \A i \in 1..Len(list) :
          list[i].category = "figure" =>
             /\ list[i].figure_id # ""
             /\ \A j \in 1..Len(list) :
                   (j # i /\ list[j].category = "figure")
                      => list[j].figure_id # list[i].figure_id
    /\ \A i \in 1..(Len(list) - 1) :
          (list[i + 1].category = "subfigure"
             /\ list[i].category \in {"figure", "subfigure"})
            => list[i + 1].figure_id = list[i].figure_id

\* C6: every list a successful normalize returns satisfies I3.
C6_ResultSatisfiesI3 ==
    (npc # "input" /\ nresult.ok) => I3(nresult.val)

\* a figure followed by a run of two subfigures
C6_Witness ==
    /\ npc = "normalized"
    /\ nresult.ok
    /\ Cats(nresult.val) = <<"figure", "subfigure", "subfigure">>
    /\ FigureIds(nresult.val) = <<"1", "1", "1">>

\* the reference numbering pass over a category sequence: a counter and the
\* open group id
RECURSIVE ReferencePass(_, _, _)
ReferencePass(cats, counter, group) ==
    IF cats = <<>> THEN <<>>
    ELSE IF Head(cats) \in {"cover", "ignore"}
         THEN <<"">> \o ReferencePass(Tail(cats), counter, "")
    ELSE IF Head(cats) = "figure"
         THEN <<ToStr(counter)>> \o ReferencePass(Tail(cats), counter + 1, ToStr(counter))
    ELSE IF group = ""
         THEN <<ToStr(counter)>> \o ReferencePass(Tail(cats), counter + 1, ToStr(counter))
         ELSE <<group>> \o ReferencePass(Tail(cats), counter, group)

\* entries as the normalize loop hands them to the numbering pass: any id
Provisional(cats) ==
    [i \in 1..Len(cats) |->
        [filename |-> ImageName(i), figure_id |-> "9", label |-> "",
         category |-> cats[i]]]

ExampleLen == 6

\* the numbering pass agrees with the reference pass on every category
\* sequence of up to ExampleLen entries
NumberingMatchesReference ==
    \A cats \in SeqsUpTo(ALLOWED_IMAGE_CATEGORIES, ExampleLen) :
        FigureIds(EnforceSequentialFigureIds(Provisional(cats)))
            = ReferencePass(cats, 1, "")

NumberingExample ==
    FigureIds(EnforceSequentialFigureIds(Provisional(
        <<"figure", "subfigure", "subfigure", "figure", "ignore", "subfigure">>)))
      = <<"1", "1", "1", "2", "", "3">>

\* C7: the figure ids normalize assigns are those of the reference pass over
\* the result's categories; the pass agrees with the reference on every
\* category sequence, and on P3's example.
C7_NumberingMatchesReference ==
    /\ NumberingMatchesReference
    /\ NumberingExample
    /\ (npc # "input" /\ nresult.ok) =>
          FigureIds(nresult.val) = ReferencePass(Cats(nresult.val), 1, "")

\* an ignore entry closes the group: the subfigure after it opens a new one
C7_Witness ==
    /\ npc = "normalized"
    /\ nresult.ok
    /\ Cats(nresult.val) = <<"figure", "ignore", "subfigure">>
    /\ FigureIds(nresult.val) = <<"1", "", "2">>

\* C8: normalizing the result of a successful normalize again, as prior
\* metadata with an empty patch, returns the same list.
C8_Idempotent ==
    npc = "renormalized" => (nagain.ok /\ nagain.val = nresult.val)

\* a result with a labelled cover and a subfigure, normalized again
C8_Witness ==
    /\ npc = "renormalized"
    /\ \E i \in 1..Len(nresult.val) :
          nresult.val[i].category = "cover" /\ nresult.val[i].label = "L"
    /\ \E i \in 1..Len(nresult.val) : nresult.val[i].category = "subfigure"
    /\ nagain = nresult


(***************************************************************************)
(* SpecResolve: the normalizer on patches and prior metadata that carry    *)
(* figure ids, labels and categories of every kind.                        *)
(***************************************************************************)
MaxResolveImages == 2

\* the items a caller sends for one image: no category, a category the
\* program does not know, a cover, an ignore, a subfigure; all but the first
\* with a figure_id
ResolveItemsFor(filename) ==
    { [filename |-> filename],
      [filename |-> filename, category |-> "diagram", figure_id |-> "7"],
      [filename |-> filename, category |-> " Cover ", figure_id |-> " 9 ",
       label |-> " L "],
      [filename |-> filename, category |-> "ignore", figure_id |-> "7"],
      [filename |-> filename, category |-> "subfigure", figure_id |-> "7",
       label |-> "S"] }

\* the patches over image_files: nothing, or up to MaxPatchLen items, each for
\* one of the images or a cover for a file the record does not have
ResolvePayloads(image_files) ==
    { PayloadNone }
      \cup { PayloadList(items) :
               items \in SeqsUpTo(
                   UNION { ResolveItemsFor(image_files[i]) : i \in 1..Len(image_files) }
                     \cup { [filename |-> "zz.png", category |-> "cover"] },
                   MaxPatchLen) }

\* what a record may hold for one image: nothing, a cover, a figure with an
\* id and a label of its own, an entry with a category the program does not
\* know
ResolvePriorKinds == {"none", "cover", "figure", "odd"}

ResolvePriorEntry(filename, kind) ==
    CASE kind = "cover" ->
           [filename |-> filename, figure_id |-> "9", label |-> "L",
            category |-> "cover"]
      [] kind = "figure" ->
           [filename |-> filename, figure_id |-> "9", label |-> " L ",
            category |-> "figure"]
      [] kind = "odd" ->
           [filename |-> filename, figure_id |-> "7", category |-> "Cover"]
      [] OTHER -> NoneVal

ResolvePriors(image_files) ==
    { SelectSeq([i \in 1..Len(image_files) |->
                   ResolvePriorEntry(image_files[i], k[i])], IsEntry) :
        k \in [1..Len(image_files) -> ResolvePriorKinds] }

ResolveInputs ==
    /\ nfiles \in { ImageFiles(n) : n \in 0..MaxResolveImages }
    /\ nprior \in ResolvePriors(nfiles)
    /\ npayload \in ResolvePayloads(nfiles)
    /\ nresult = NotRun
    /\ nagain = NotRun
    /\ npc = "input"

InitResolve == ResolveInputs /\ StoreUnused /\ TagCaseUnused /\ AnalysisUnused

NextResolve ==
    \/ NormApply /\ UNCHANGED <<storeVars, tagcase, analysis>>
    \/ NormAgain /\ UNCHANGED <<storeVars, tagcase, analysis>>

SpecResolve == InitResolve /\ [][NextResolve]_vars

\* label of the candidate resolved for filename: that of the patch entry for
\* it if the patch has one, else that of the prior entry, else empty
CandidateLabel(payload, prior, filename) ==
    LET items == PayloadItems(payload)
        inPatch == { j \in 1..Len(items) :
                       "filename" \in DOMAIN items[j] /\ items[j].filename = filename }
        inPrior == { j \in 1..Len(prior) :
                       "filename" \in DOMAIN prior[j] /\ prior[j].filename = filename }
        labelOf(e) == IF "label" \in DOMAIN e THEN Strip(e.label) ELSE ""
    IN  IF inPatch # {} THEN labelOf(items[LastIndex(inPatch)])
        ELSE IF inPrior # {} THEN labelOf(prior[LastIndex(inPrior)])
        ELSE ""

\* C28: for each filename of image_files, in order, the entry normalize
\* returns has the category and label of the candidate resolved for it: the
\* patch entry if there is one, else the prior entry, else a default (figure,
\* empty label); a category that is missing or not recognized counts as
\* figure; patch entries for other filenames give no entry and no cover
\* failure: the call fails exactly when two candidates over image_files are
\* cover.
C28_CandidateResolution ==
    (npc # "input" /\ WellFormedPayload(npayload)) =>
        /\ nresult.ok <=> Cardinality(CoverCandidates(npayload, nfiles, nprior)) <= 1
        /\ nresult.ok =>
              /\ Len(nresult.val) = Len(nfiles)
              /\ \A i \in 1..Len(nfiles) :
                    /\ nresult.val[i].filename = nfiles[i]
                    /\ nresult.val[i].category =
                          CandidateCategory(npayload, nprior, nfiles[i])
                    /\ nresult.val[i].label =
                          CandidateLabel(npayload, nprior, nfiles[i])

\* the patch replaces the stored cover of the first image by an unknown
\* category and names a cover for a file the record does not have; the
\* second image keeps its stored cover
C28_Witness ==
    /\ npc = "normalized"
    /\ nfiles = ImageFiles(2)
    /\ nprior = <<ResolvePriorEntry(ImageName(1), "cover"),
                  ResolvePriorEntry(ImageName(2), "cover")>>
    /\ npayload = PayloadList(<<[filename |-> ImageName(1), category |-> "diagram",
                                 figure_id |-> "7"],
                                [filename |-> "zz.png", category |-> "cover"]>>)
    /\ nresult.ok
    /\ Cats(nresult.val) = <<"figure", "cover">>

\* the categories resolved for image_files, position by position
ResolvedCategories(payload, prior, image_files) ==
    [i \in 1..Len(image_files) |-> CandidateCategory(payload, prior, image_files[i])]

\* C29: the figure ids normalize returns are a function of the resolved
\* category sequence alone (the reference numbering of that sequence),
\* whatever figure ids the patch and the prior metadata carry: calls whose
\* resolved categories agree return the same ids, and no id a caller sent
\* is returned.
C29_FigureIdsFromCategoriesOnly ==
    (npc # "input" /\ nresult.ok) =>
        FigureIds(nresult.val)
            = ReferencePass(ResolvedCategories(npayload, nprior, nfiles), 1, "")

\* the prior figure carries id 9 and the patch sends id 7 for a subfigure:
\* both come out as 1
C29_Witness ==
    /\ npc = "normalized"
    /\ nfiles = ImageFiles(2)
    /\ nprior = <<ResolvePriorEntry(ImageName(1), "figure")>>
    /\ npayload = PayloadList(<<[filename |-> ImageName(2), category |-> "subfigure",
                                 figure_id |-> "7", label |-> "S"]>>)
    /\ nresult.ok
    /\ FigureIds(nresult.val) = <<"1", "1">>


(***************************************************************************)
(* LiteratureRepository: the storage units and the JSON record file.       *)
(***************************************************************************)
\* the ids uuid4 may return
Ids == {"r1", "r2"}

\* the callers of the repository (request handlers)
Callers == {1, 2}

\* a storage unit that does not exist
NoUnit == [dir |-> FALSE, has_json |-> FALSE, content |-> <<>>, pdf |-> FALSE]

\* json.dump(data, f): the text written, in parts: the opening brace with
\* the members other than custom_tags, one part per tag, the closing brace
\* (every dict the program writes has custom_tags); the text of a record
\* with more tags is longer
Dump(data) ==
    <<[tok |-> "{", rest |-> [k \in DOMAIN data \ {"custom_tags"} |-> data[k]]]>>
      \o [j \in 1..Len(data.custom_tags) |-> [tok |-> "tag", val |-> data.custom_tags[j]]]
      \o <<[tok |-> "}"]>>

\* a part of the file no writer has written (a run of zero bytes)
Hole == [tok |-> "0"]

\* f.write of the parts from+1..to of text by a writer whose position in the
\* file is from: the parts land at their positions, whatever the file holds
Overlay(content, text, from, to) ==
    [j \in 1..(IF Len(content) > to THEN Len(content) ELSE to) |->
        IF j > from /\ j <= to THEN text[j]
        ELSE IF j <= Len(content) THEN content[j]
        ELSE Hole]

\* json.load(f): the dict of a complete text, JSONDecodeError otherwise
Load(content) ==
    IF /\ Len(content) >= 2
       /\ content[1].tok = "{"
       /\ content[Len(content)].tok = "}"
       /\ \A j \in 2..(Len(content) - 1) : content[j].tok = "tag"
    THEN Ok([k \in DOMAIN content[1].rest \cup {"custom_tags"} |->
               IF k = "custom_tags"
               THEN [j \in 1..(Len(content) - 2) |-> content[j + 1].val]
               ELSE content[1].rest[k]])
    ELSE Raise("JSONDecodeError")

\* os.path.exists(get_analysis_filepath(paper_id))
Exists(d, paper_id) == d[paper_id].dir /\ d[paper_id].has_json

\* get_literature_by_id: the dict, or None when the file is missing or does
\* not parse
GetLiteratureById(d, paper_id) ==
    IF ~Exists(d, paper_id) THEN NoneVal
    ELSE IF ~Load(d[paper_id].content).ok THEN NoneVal
    ELSE Load(d[paper_id].content).val

\* dict.get(key, default)
Get(d, key, default) == IF key \in DOMAIN d THEN d[key] ELSE default

\* d[key] = value
Put(d, key, value) ==
    [k \in DOMAIN d \cup {key} |-> IF k = key THEN value ELSE d[k]]

EmptyDict == [k \in {} |-> ""]

Range(seq) == { seq[i] : i \in 1..Len(seq) }

\* list.remove(x): the first occurrence
RECURSIVE RemoveFirst(_, _)
RemoveFirst(seq, x) ==
    IF seq = <<>> THEN <<>>
    ELSE IF Head(seq) = x THEN Tail(seq)
    ELSE <<Head(seq)>> \o RemoveFirst(Tail(seq), x)

\* list(dict.fromkeys(seq)): the first occurrence of each element, in order
RECURSIVE Dedup(_)
Dedup(seq) ==
    IF seq = <<>> THEN <<>>
    ELSE IF seq[Len(seq)] \in Range(SubSeq(seq, 1, Len(seq) - 1))
         THEN Dedup(SubSeq(seq, 1, Len(seq) - 1))
         ELSE Append(Dedup(SubSeq(seq, 1, Len(seq) - 1)), seq[Len(seq)])

\* add_tag_to_literature._add with the membership test forgotten
MutAddTagAlwaysAppends(data, tag) ==
    IF tag # "" THEN [data EXCEPT !.custom_tags = Append(@, tag)] ELSE data

\* add_tag_to_literature._add
AddTagTransform(data, tag) ==
    IF tag # "" /\ tag \notin Range(data.custom_tags)
    THEN [data EXCEPT !.custom_tags = Append(@, tag)]
    ELSE data

\* remove_tag_from_literature._remove
RemoveTagTransform(data, tag) ==
    IF tag \in Range(data.custom_tags)
    THEN [data EXCEPT !.custom_tags = RemoveFirst(@, tag)]
    ELSE data

\* update_image_metadata._update
SetImageMetadataTransform(data, metadata) == Put(data, "image_metadata", metadata)

\* key_map of update_literature_metadata; the keys of the bibliographic block
\* are written biaoti, zuozhe, nianfen, qikan and the block wenxian_xinxi
KeyMap(incoming_key) ==
    CASE incoming_key = "title" -> "biaoti"
      [] incoming_key = "authors" -> "zuozhe"
      [] incoming_key = "year" -> "nianfen"
      [] incoming_key = "journal" -> "qikan"
      [] OTHER -> incoming_key

BibKeys == {"biaoti", "zuozhe", "nianfen", "qikan"}

\* update_literature_metadata._update without the allow-list: every key of the
\* payload that is no bibliographic field is stored in the record
MutUpdateMetadataWritesAnyKey(data, metadata) ==
    IF ~IsDict(metadata) THEN Raise("AttributeError")
    ELSE
      LET meta == Get(data, "wenxian_xinxi", EmptyDict)
          hits(t) == { k \in DOMAIN metadata : KeyMap(k) = t }
          targets == { KeyMap(k) : k \in DOMAIN metadata } \cap BibKeys
          newMeta == [t \in DOMAIN meta \cup targets |->
                        IF hits(t) # {} THEN metadata[CHOOSE k \in hits(t) : TRUE]
                        ELSE meta[t]]
          others == { k \in DOMAIN metadata : KeyMap(k) \notin BibKeys }
          d1 == Put(data, "wenxian_xinxi", newMeta)
      IN  Ok([k \in DOMAIN d1 \cup others |->
                IF k \in others THEN metadata[k] ELSE d1[k]])

\* update_literature_metadata._update: metadata.items() raises on a payload
\* that is no dict
UpdateLiteratureMetadataTransform(data, metadata) ==
    IF ~IsDict(metadata) THEN Raise("AttributeError")
    ELSE
      LET meta == Get(data, "wenxian_xinxi", EmptyDict)
          hits(t) == { k \in DOMAIN metadata : KeyMap(k) = t }
          targets == { KeyMap(k) : k \in DOMAIN metadata } \cap BibKeys
          newMeta == [t \in DOMAIN meta \cup targets |->
                        IF hits(t) # {} THEN metadata[CHOOSE k \in hits(t) : TRUE]
                        ELSE meta[t]]
          d1 == Put(data, "wenxian_xinxi", newMeta)
          d2 == IF GetOr(metadata, "upload_time", "") # ""
                THEN Put(d1, "upload_time", metadata["upload_time"]) ELSE d1
          d3 == IF GetOr(metadata, "time_label", "") # ""
                THEN Put(d2, "time_label", metadata["time_label"]) ELSE d2
      IN  Ok(d3)

\* the update_function a repository method hands to _mutate_analysis_file
Transform(op, arg, data) ==
    CASE op = "add_tag" -> Ok(AddTagTransform(data, arg))
      [] op = "remove_tag" -> Ok(RemoveTagTransform(data, arg))
      [] op = "update_literature_metadata" -> UpdateLiteratureMetadataTransform(data, arg)
      [] OTHER -> Ok(SetImageMetadataTransform(data, arg))

\* _mutate_analysis_file reading the file of record r1 whatever the id
MutMutateReadsOneFile(d, paper_id, op, arg) ==
    IF ~Exists(d, "r1") THEN Raise("FileNotFoundError")
    ELSE IF ~Load(d["r1"].content).ok THEN Load(d["r1"].content)
    ELSE LET data == IF "custom_tags" \in DOMAIN Load(d["r1"].content).val
                     THEN Load(d["r1"].content).val
                     ELSE Put(Load(d["r1"].content).val, "custom_tags", <<>>)
         IN  Transform(op, arg, data)

\* _mutate_analysis_file with the transform's exception swallowed
MutMutateSwallowsError(d, paper_id, op, arg) ==
    IF ~Exists(d, paper_id) THEN Raise("FileNotFoundError")
    ELSE IF ~Load(d[paper_id].content).ok THEN Load(d[paper_id].content)
    ELSE LET data == IF "custom_tags" \in DOMAIN Load(d[paper_id].content).val
                     THEN Load(d[paper_id].content).val
                     ELSE Put(Load(d[paper_id].content).val, "custom_tags", <<>>)
         IN  IF Transform(op, arg, data).ok THEN Transform(op, arg, data) ELSE Ok(data)

\* _mutate_analysis_file up to the call of update_function: the dict to
\* write, or the exception raised
MutateLoadAndTransform(d, paper_id, op, arg) ==
    IF ~Exists(d, paper_id) THEN Raise("FileNotFoundError")
    ELSE IF ~Load(d[paper_id].content).ok THEN Load(d[paper_id].content)
    ELSE LET data == IF "custom_tags" \in DOMAIN Load(d[paper_id].content).val
                     THEN Load(d[paper_id].content).val
                     ELSE Put(Load(d[paper_id].content).val, "custom_tags", <<>>)
         IN  Transform(op, arg, data)

\* what the repository (or service) method returns after the write
ReturnValue(op, updated, metadata) ==
    CASE op \in {"add_tag", "remove_tag"} -> Get(updated, "custom_tags", <<>>)
      [] op = "update_literature_metadata" -> Get(updated, "wenxian_xinxi", EmptyDict)
      [] OTHER -> metadata

\* the order of str on the sample tags: "" < "B" < "a" < "b"
StrRank(str) ==
    CASE str = "B" -> 1
      [] str = "a" -> 2
      [] str = "b" -> 3
      [] OTHER -> 0

\* sorted(list(all_tags)) on the sample tags
RECURSIVE SortedStr(_)
SortedStr(S) ==
    IF S = {} THEN <<>>
    ELSE LET m == CHOOSE x \in S : \A y \in S : StrRank(x) <= StrRank(y)
         IN  <<m>> \o SortedStr(S \ {m})

RECURSIVE SortedByLower(_)
SortedByLower(S) ==
    IF S = {} THEN <<>>
    ELSE LET m == CHOOSE x \in S : \A y \in S : StrRank(Lower(x)) <= StrRank(Lower(y))
         IN  <<m>> \o SortedByLower(S \ {m})

\* the ids get_tag_stats reads: a directory whose analysis.json parses
Readable(d) == { i \in DOMAIN d : Exists(d, i) /\ Load(d[i].content).ok }

TagsOf(d, paper_id) == Get(Load(d[paper_id].content).val, "custom_tags", <<>>)

\* get_tag_stats giving up at a record that cannot be read
MutGetTagStatsStopsAtBadRecord(d) ==
    LET names == UNION { Range(TagsOf(d, i)) : i \in Readable(d) }
        count(name) == Cardinality({ i \in Readable(d) : name \in Range(TagsOf(d, i)) })
        sorted == SortedByLower(names)
    IN  IF \E i \in DOMAIN d : d[i].dir /\ i \notin Readable(d) THEN <<>>
        ELSE [j \in 1..Len(sorted) |-> [tag |-> sorted[j], count |-> count(sorted[j])]]

\* get_tag_stats
\* get_tag_stats with the order of get_all_tags
MutGetTagStatsSortsCaseSensitive(d) ==
    LET names == UNION { Range(TagsOf(d, i)) : i \in Readable(d) }
        count(name) == Cardinality({ i \in Readable(d) : name \in Range(TagsOf(d, i)) })
        sorted == SortedStr(names)
    IN  [j \in 1..Len(sorted) |-> [tag |-> sorted[j], count |-> count(sorted[j])]]

GetTagStats(d) ==
    LET names == UNION { Range(TagsOf(d, i)) : i \in Readable(d) }
        occurrences(name) ==
            UNION { { <<i, j>> : j \in { k \in 1..Len(TagsOf(d, i)) : TagsOf(d, i)[k] = name } } :
                    i \in Readable(d) }
        count(name) == Cardinality(occurrences(name))
        sorted == SortedByLower(names)
    IN  [j \in 1..Len(sorted) |-> [tag |-> sorted[j], count |-> count(sorted[j])]]

\* rename_tag_globally moving the renamed tag to the end of the list
MutRenameTagsMovesToEnd(tags, old_tag, new_tag) ==
    Append(SelectSeq(tags, LAMBDA t : t \notin {old_tag, new_tag}), new_tag)

\* rename_tag_globally with the de-duplication left out
MutRenameTagsNoDedup(tags, old_tag, new_tag) ==
    [j \in 1..Len(tags) |-> IF tags[j] = old_tag THEN new_tag ELSE tags[j]]

\* rename_tag_globally: the new tag list of a record that has old_tag
RenameTags(tags, old_tag, new_tag) ==
    Dedup([j \in 1..Len(tags) |-> IF tags[j] = old_tag THEN new_tag ELSE tags[j]])

\* delete_tag_globally with the filter left out
MutDeleteTagsKeepsAll(tags, tag) == tags

\* delete_tag_globally: the new tag list of a record that has tag
DeleteTags(tags, tag) == SelectSeq(tags, LAMBDA t : t # tag)

\* the scan iteration with the "old_tag not in tags: continue" test left out
MutScanDecisionRewritesAll(d, paper_id, op, old_tag, new_tag) ==
    IF ~d[paper_id].dir THEN Raise("skip")
    ELSE IF ~d[paper_id].has_json THEN Raise("skip")
    ELSE IF ~Load(d[paper_id].content).ok THEN Raise("skip")
    ELSE LET data == Load(d[paper_id].content).val
             tags == Get(data, "custom_tags", <<>>)
         IN  IF op = "rename_tag"
             THEN Ok(Put(data, "custom_tags", RenameTags(tags, old_tag, new_tag)))
             ELSE Ok(Put(data, "custom_tags", DeleteTags(tags, old_tag)))

\* one iteration of the scan of rename_tag_globally / delete_tag_globally up
\* to the write: the dict to write, or "skip" (continue)
ScanDecision(d, paper_id, op, old_tag, new_tag) ==
    IF ~d[paper_id].dir THEN Raise("skip")
    ELSE IF ~d[paper_id].has_json THEN Raise("skip")
    ELSE IF ~Load(d[paper_id].content).ok THEN Raise("skip")
    ELSE LET data == Load(d[paper_id].content).val
             tags == Get(data, "custom_tags", <<>>)
         IN  IF tags = <<>> \/ old_tag \notin Range(tags) THEN Raise("skip")
             ELSE IF op = "rename_tag"
                  THEN Ok(Put(data, "custom_tags", RenameTags(tags, old_tag, new_tag)))
                  ELSE Ok(Put(data, "custom_tags", DeleteTags(tags, old_tag)))

(***************************************************************************)
(* LiteratureService: ingestion helpers.                                   *)
(***************************************************************************)
\* _enrich_analysis_payload(analysis_data, paper_id, image_files); a
\* custom_tags value of the analysis result is a list or absent here
EnrichAnalysisPayload(analysis_data, paper_id, image_files) ==
    LET d1 == Put(Put(analysis_data, "paper_id", paper_id), "image_files", image_files)
        d2 == Put(d1, "custom_tags", Get(analysis_data, "custom_tags", <<>>))
        metadata == Get(analysis_data, "image_metadata", <<>>)
    IN  Put(d2, "image_metadata",
            IF metadata = <<>> THEN DefaultImageMetadata(image_files, <<>>)
            ELSE metadata)

\* _build_summary(analysis_payload, fallback_title)
BuildSummary(analysis_payload, fallback_title) ==
    LET meta == Get(analysis_payload, "wenxian_xinxi", EmptyDict)
    IN  [id |-> Get(analysis_payload, "paper_id", ""),
         title |-> GetOr(meta, "biaoti", fallback_title),
         authors |-> Get(meta, "zuozhe", <<>>),
         year |-> Get(meta, "nianfen", ""),
         custom_tags |-> Get(analysis_payload, "custom_tags", <<>>)]

(***************************************************************************)
(* The calls, step by step.  A caller p is idle, inside one call, or done   *)
(* with it (its outcome not yet handed over).                              *)
(***************************************************************************)
NoCall == [op |-> "none"]
NoLoc == [target |-> "", updated |-> NoneVal, after |-> "", todo |-> {},
          metadata |-> <<>>, off |-> 0]

InitStore ==
    /\ disk = [i \in Ids |-> NoUnit]
    /\ tmpfile = FALSE
    /\ pc = [p \in Callers |-> "idle"]
    /\ call = [p \in Callers |-> NoCall]
    /\ loc = [p \in Callers |-> NoLoc]
    /\ ret = [p \in Callers |-> NotRun]
    /\ pre = [p \in Callers |-> [i \in Ids |-> NoUnit]]
    /\ wrote = [p \in Callers |-> {}]

\* add_tag / remove_tag without the except FileNotFoundError clause
MutServiceOutcomeUntranslated(op, out) == out

\* LiteratureService.add_tag / remove_tag: a FileNotFoundError of the
\* repository becomes NotFoundError; the other callers let it through
ServiceOutcome(op, out) ==
    IF op \in {"add_tag", "remove_tag"} /\ out = Raise("FileNotFoundError")
    THEN Raise("NotFound")
    ELSE out

\* a repository method that is one _mutate_analysis_file call (add_tag_to_
\* literature, remove_tag_from_literature, update_literature_metadata): from
\* the call to the return of update_function
RepoCall(p, c) ==
    /\ pc[p] = "idle"
    /\ call' = [call EXCEPT ![p] = c]
    /\ pre' = [pre EXCEPT ![p] = disk]
    /\ wrote' = [wrote EXCEPT ![p] = {}]
    /\ LET out == MutateLoadAndTransform(disk, c.id, c.op, c.arg)
       IN  IF out.ok
           THEN /\ pc' = [pc EXCEPT ![p] = "write_open"]
                /\ loc' = [loc EXCEPT ![p] = [NoLoc EXCEPT !.target = c.id,
                                                 !.updated = out.val,
                                                 !.after = "return"]]
                /\ ret' = [ret EXCEPT ![p] = NotRun]
           ELSE /\ pc' = [pc EXCEPT ![p] = "done"]
                /\ loc' = [loc EXCEPT ![p] = NoLoc]
                /\ ret' = [ret EXCEPT ![p] = ServiceOutcome(c.op, out)]
    /\ UNCHANGED <<disk, tmpfile>>

\* LiteratureService.update_image_metadata up to the repository call:
\* get_literature, then the normalizer
MutServiceUpdateKeepsOldOnError(d, paper_id, payload) ==
    IF GetLiteratureById(d, paper_id) = NoneVal THEN Raise("NotFound")
    ELSE LET record == GetLiteratureById(d, paper_id)
             out == NormalizeImageMetadataPayload(payload,
                        Get(record, "image_files", <<>>),
                        Get(record, "image_metadata", <<>>))
         IN  IF out.ok THEN out ELSE Ok(Get(record, "image_metadata", <<>>))

ServiceUpdateImageMetadata(d, paper_id, payload) ==
    IF GetLiteratureById(d, paper_id) = NoneVal THEN Raise("NotFound")
    ELSE LET record == GetLiteratureById(d, paper_id)
         IN  NormalizeImageMetadataPayload(payload,
                 Get(record, "image_files", <<>>),
                 Get(record, "image_metadata", <<>>))

\* LiteratureService.get_image_metadata up to the repository call: the stored
\* list (no write), or the default list to persist
MutServiceGetNeverPersists(d, paper_id) ==
    IF GetLiteratureById(d, paper_id) = NoneVal THEN Raise("NotFound")
    ELSE LET record == GetLiteratureById(d, paper_id)
         IN  IF Get(record, "image_metadata", <<>>) # <<>>
             THEN Ok([persist |-> FALSE, metadata |-> record["image_metadata"]])
             ELSE Ok([persist |-> FALSE,
                      metadata |-> DefaultImageMetadata(
                                       Get(record, "image_files", <<>>), <<>>)])

ServiceGetImageMetadata(d, paper_id) ==
    IF GetLiteratureById(d, paper_id) = NoneVal THEN Raise("NotFound")
    ELSE LET record == GetLiteratureById(d, paper_id)
         IN  IF Get(record, "image_metadata", <<>>) # <<>>
             THEN Ok([persist |-> FALSE, metadata |-> record["image_metadata"]])
             ELSE Ok([persist |-> TRUE,
                      metadata |-> DefaultImageMetadata(
                                       Get(record, "image_files", <<>>), <<>>)])

UpdateImageMetadataCall(p, paper_id, payload) ==
    /\ pc[p] = "idle"
    /\ call' = [call EXCEPT ![p] =
                  [op |-> "update_image_metadata", id |-> paper_id, arg |-> payload]]
    /\ pre' = [pre EXCEPT ![p] = disk]
    /\ wrote' = [wrote EXCEPT ![p] = {}]
    /\ LET out == ServiceUpdateImageMetadata(disk, paper_id, payload)
       IN  IF out.ok
           THEN /\ pc' = [pc EXCEPT ![p] = "mut_load"]
                /\ loc' = [loc EXCEPT ![p] = [NoLoc EXCEPT !.target = paper_id,
                                                 !.metadata = out.val]]
                /\ ret' = [ret EXCEPT ![p] = NotRun]
           ELSE /\ pc' = [pc EXCEPT ![p] = "done"]
                /\ loc' = [loc EXCEPT ![p] = NoLoc]
                /\ ret' = [ret EXCEPT ![p] = out]
    /\ UNCHANGED <<disk, tmpfile>>

GetImageMetadataCall(p, paper_id) ==
    /\ pc[p] = "idle"
    /\ call' = [call EXCEPT ![p] =
                  [op |-> "get_image_metadata", id |-> paper_id, arg |-> PayloadNone]]
    /\ pre' = [pre EXCEPT ![p] = disk]
    /\ wrote' = [wrote EXCEPT ![p] = {}]
    /\ LET out == ServiceGetImageMetadata(disk, paper_id)
       IN  IF out.ok /\ out.val.persist
           THEN /\ pc' = [pc EXCEPT ![p] = "mut_load"]
                /\ loc' = [loc EXCEPT ![p] = [NoLoc EXCEPT !.target = paper_id,
                                                 !.metadata = out.val.metadata]]
                /\ ret' = [ret EXCEPT ![p] = NotRun]
           ELSE /\ pc' = [pc EXCEPT ![p] = "done"]
                /\ loc' = [loc EXCEPT ![p] = NoLoc]
                /\ ret' = [ret EXCEPT ![p] =
                             IF out.ok THEN Ok(out.val.metadata) ELSE out]
    /\ UNCHANGED <<disk, tmpfile>>

\* LiteratureRepository.update_image_metadata called by the service:
\* _mutate_analysis_file up to the return of update_function
MutLoad(p) ==
    /\ pc[p] = "mut_load"
    /\ LET out == MutateLoadAndTransform(disk, loc[p].target, "set_image_metadata",
                                         loc[p].metadata)
       IN  IF out.ok
           THEN /\ pc' = [pc EXCEPT ![p] = "write_open"]
                /\ loc' = [loc EXCEPT ![p].updated = out.val, ![p].after = "return"]
                /\ ret' = ret
           ELSE /\ pc' = [pc EXCEPT ![p] = "done"]
                /\ loc' = [loc EXCEPT ![p] = NoLoc]
                /\ ret' = [ret EXCEPT ![p] = out]
    /\ UNCHANGED <<disk, tmpfile, call, pre, wrote>>

\* rename_tag_globally / delete_tag_globally: the guard and os.listdir
ScanCall(p, c) ==
    /\ pc[p] = "idle"
    /\ call' = [call EXCEPT ![p] = c]
    /\ pre' = [pre EXCEPT ![p] = disk]
    /\ wrote' = [wrote EXCEPT ![p] = {}]
    /\ IF c.old = "" \/ (c.op = "rename_tag" /\ c.new = "")
       THEN /\ pc' = [pc EXCEPT ![p] = "done"]
            /\ loc' = [loc EXCEPT ![p] = NoLoc]
            /\ ret' = [ret EXCEPT ![p] = Ok(GetTagStats(disk))]
       ELSE /\ pc' = [pc EXCEPT ![p] = "scan"]
            /\ loc' = [loc EXCEPT ![p] =
                         [NoLoc EXCEPT !.todo = { i \in Ids : disk[i].dir }]]
            /\ ret' = [ret EXCEPT ![p] = NotRun]
    /\ UNCHANGED <<disk, tmpfile>>

\* one iteration of the scan, up to the write
ScanVisit(p) ==
    /\ pc[p] = "scan"
    /\ \E i \in loc[p].todo :
         LET out == ScanDecision(disk, i, call[p].op, call[p].old, call[p].new)
         IN  IF out.ok
             THEN /\ pc' = [pc EXCEPT ![p] = "write_open"]
                  /\ loc' = [loc EXCEPT ![p].todo = @ \ {i}, ![p].target = i,
                                        ![p].updated = out.val, ![p].after = "scan"]
             ELSE /\ pc' = pc
                  /\ loc' = [loc EXCEPT ![p].todo = @ \ {i}]
    /\ UNCHANGED <<disk, tmpfile, call, ret, pre, wrote>>

\* the scan is over: return self.get_tag_stats()
ScanDone(p) ==
    /\ pc[p] = "scan"
    /\ loc[p].todo = {}
    /\ pc' = [pc EXCEPT ![p] = "done"]
    /\ loc' = [loc EXCEPT ![p] = NoLoc]
    /\ ret' = [ret EXCEPT ![p] = Ok(GetTagStats(disk))]
    /\ UNCHANGED <<disk, tmpfile, call, pre, wrote>>

\* open(filepath, 'w'): the file is created or truncated
WriteOpen(p) ==
    /\ pc[p] = "write_open"
    /\ IF disk[loc[p].target].dir
       THEN /\ disk' = [disk EXCEPT ![loc[p].target].has_json = TRUE,
                                    ![loc[p].target].content = <<>>]
            /\ wrote' = [wrote EXCEPT ![p] = @ \cup {loc[p].target}]
            /\ pc' = [pc EXCEPT ![p] = "write_close"]
            /\ loc' = [loc EXCEPT ![p].off = 0]
            /\ ret' = ret
       ELSE /\ UNCHANGED <<disk, wrote>>
            /\ IF loc[p].after = "scan"
               THEN /\ pc' = [pc EXCEPT ![p] = "scan"]
                    /\ UNCHANGED <<loc, ret>>
               ELSE /\ pc' = [pc EXCEPT ![p] = "done"]
                    /\ loc' = [loc EXCEPT ![p] = NoLoc]
                    /\ ret' = [ret EXCEPT ![p] =
                                 ServiceOutcome(call[p].op, Raise("FileNotFoundError"))]
    /\ UNCHANGED <<tmpfile, call, pre>>

\* json.dump in progress: the buffer is flushed part way
WriteFlush(p) ==
    /\ pc[p] = "write_close"
    /\ \E k \in (loc[p].off + 1)..(Len(Dump(loc[p].updated)) - 1) :
          /\ disk' = [disk EXCEPT ![loc[p].target].content =
                        Overlay(@, Dump(loc[p].updated), loc[p].off, k)]
          /\ loc' = [loc EXCEPT ![p].off = k]
    /\ UNCHANGED <<tmpfile, pc, call, ret, pre, wrote>>

\* the with block ends: the whole text is in the file; the method returns, or
\* the scan goes on
WriteClose(p) ==
    /\ pc[p] = "write_close"
    /\ disk' = [disk EXCEPT ![loc[p].target].content =
                  Overlay(@, Dump(loc[p].updated), loc[p].off,
                          Len(Dump(loc[p].updated)))]
    /\ IF loc[p].after = "scan"
       THEN /\ pc' = [pc EXCEPT ![p] = "scan"]
            /\ loc' = [loc EXCEPT ![p].off = 0]
            /\ ret' = ret
       ELSE /\ pc' = [pc EXCEPT ![p] = "done"]
            /\ loc' = [loc EXCEPT ![p] = NoLoc]
            /\ ret' = [ret EXCEPT ![p] =
                         Ok(ReturnValue(call[p].op, loc[p].updated, loc[p].metadata))]
    /\ UNCHANGED <<tmpfile, call, pre, wrote>>

\* the outcome is handed to the caller (routes/_execute): the handler's
\* variables are gone
Respond(p) ==
    /\ pc[p] = "done"
    /\ pc' = [pc EXCEPT ![p] = "idle"]
    /\ call' = [call EXCEPT ![p] = NoCall]
    /\ ret' = [ret EXCEPT ![p] = NotRun]
    /\ pre' = [pre EXCEPT ![p] = [i \in Ids |-> NoUnit]]
    /\ wrote' = [wrote EXCEPT ![p] = {}]
    /\ UNCHANGED <<disk, tmpfile, loc>>

\* the process dies inside a call: its files stay as they are
Crash(p) ==
    /\ pc[p] \notin {"idle", "done"}
    /\ pc' = [pc EXCEPT ![p] = "done"]
    /\ loc' = [loc EXCEPT ![p] = NoLoc]
    /\ ret' = [ret EXCEPT ![p] = Raise("crashed")]
    /\ UNCHANGED <<disk, tmpfile, call, pre, wrote>>

\* process_upload: _validate_pdf, then the temporary file is written
UploadCall(p, up, ids) ==
    /\ pc[p] = "idle"
    /\ up.kind = "ok" => \E i \in ids : ~disk[i].dir
    /\ call' = [call EXCEPT ![p] = up]
    /\ pre' = [pre EXCEPT ![p] = disk]
    /\ wrote' = [wrote EXCEPT ![p] = {}]
    /\ IF up.kind = "not_pdf"
       THEN /\ pc' = [pc EXCEPT ![p] = "done"]
            /\ ret' = [ret EXCEPT ![p] = Raise("InvalidUpload:not_a_pdf")]
            /\ tmpfile' = tmpfile
       ELSE /\ pc' = [pc EXCEPT ![p] = "up_analyze"]
            /\ ret' = [ret EXCEPT ![p] = NotRun]
            /\ tmpfile' = TRUE
    /\ loc' = [loc EXCEPT ![p] = NoLoc]
    /\ UNCHANGED disk

\* process_upload without the finally clause of _temporary_pdf
MutUploadAnalyzeKeepsTempFile(p, ids) ==
    /\ pc[p] = "up_analyze"
    /\ IF call[p].kind \in {"no_text", "analysis_error"}
       THEN /\ pc' = [pc EXCEPT ![p] = "done"]
            /\ ret' = [ret EXCEPT ![p] = Raise("AnalysisFailure")]
            /\ tmpfile' = tmpfile
            /\ loc' = loc
       ELSE /\ \E i \in ids :
                 /\ ~disk[i].dir
                 /\ loc' = [loc EXCEPT ![p].target = i]
            /\ pc' = [pc EXCEPT ![p] = "up_extract"]
            /\ UNCHANGED <<ret, tmpfile>>
    /\ UNCHANGED <<disk, call, pre, wrote>>

\* process_upload: extract_text_from_pdf and analyze_text_with_deepseek; on
\* failure AnalysisFailure leaves the with block, which removes the temporary
\* file; on success uuid4 gives an id no storage unit has
UploadAnalyze(p, ids) ==
    /\ pc[p] = "up_analyze"
    /\ IF call[p].kind \in {"no_text", "analysis_error"}
       THEN /\ pc' = [pc EXCEPT ![p] = "done"]
            /\ ret' = [ret EXCEPT ![p] = Raise("AnalysisFailure")]
            /\ tmpfile' = FALSE
            /\ loc' = loc
       ELSE /\ \E i \in ids :
                 /\ ~disk[i].dir
                 /\ loc' = [loc EXCEPT ![p].target = i]
            /\ pc' = [pc EXCEPT ![p] = "up_extract"]
            /\ UNCHANGED <<ret, tmpfile>>
    /\ UNCHANGED <<disk, call, pre, wrote>>

\* process_upload: extract_images_from_pdf creates the record directory and
\* saves the images; _enrich_analysis_payload builds the record
UploadExtract(p) ==
    /\ pc[p] = "up_extract"
    /\ disk' = [disk EXCEPT ![loc[p].target].dir = TRUE]
    /\ loc' = [loc EXCEPT ![p].updated =
                 EnrichAnalysisPayload(call[p].analysis, loc[p].target,
                                       ImageFiles(call[p].n))]
    /\ pc' = [pc EXCEPT ![p] = "up_save_json"]
    /\ UNCHANGED <<tmpfile, call, ret, pre, wrote>>

\* save_new_literature: the record file is written, or the write fails and
\* the failure is logged
UploadSaveJson(p, outcomes) ==
    /\ pc[p] = "up_save_json"
    /\ \E written \in outcomes :
          /\ disk' = IF written
                     THEN [disk EXCEPT ![loc[p].target].has_json = TRUE,
                                       ![loc[p].target].content = Dump(loc[p].updated)]
                     ELSE disk
          /\ wrote' = IF written THEN [wrote EXCEPT ![p] = @ \cup {loc[p].target}]
                      ELSE wrote
    /\ pc' = [pc EXCEPT ![p] = "up_copy_pdf"]
    /\ UNCHANGED <<tmpfile, call, loc, ret, pre>>

\* save_new_literature: the source file is copied, or the copy fails and the
\* failure is logged; process_upload returns the summary and the with block
\* removes the temporary file
UploadCopyPdf(p, outcomes) ==
    /\ pc[p] = "up_copy_pdf"
    /\ \E copied \in outcomes :
          disk' = IF copied THEN [disk EXCEPT ![loc[p].target].pdf = TRUE] ELSE disk
    /\ pc' = [pc EXCEPT ![p] = "done"]
    /\ ret' = [ret EXCEPT ![p] = Ok(BuildSummary(loc[p].updated, "upload.pdf"))]
    /\ loc' = [loc EXCEPT ![p] = NoLoc]
    /\ tmpfile' = FALSE
    /\ UNCHANGED <<call, pre, wrote>>

\* get_all_tags
GetAllTags(d) == SortedStr(UNION { Range(TagsOf(d, i)) : i \in Readable(d) })

\* get_all_literature_summaries: the summaries of the records whose file
\* parses (their order, by modification time, is left out)
GetAllLiteratureSummaries(d) ==
    { [id |-> Get(Load(d[i].content).val, "paper_id", i),
       title |-> Get(Get(Load(d[i].content).val, "wenxian_xinxi", EmptyDict),
                     "biaoti", "untitled"),
       authors |-> Get(Get(Load(d[i].content).val, "wenxian_xinxi", EmptyDict),
                       "zuozhe", <<>>),
       year |-> Get(Get(Load(d[i].content).val, "wenxian_xinxi", EmptyDict),
                    "nianfen", ""),
       custom_tags |-> Get(Load(d[i].content).val, "custom_tags", <<>>),
       reading_time |-> Get(Load(d[i].content).val, "reading_time", NoneVal),
       upload_time |-> Get(Load(d[i].content).val, "upload_time", NoneVal)] :
      i \in Readable(d) }

\* the read-only scans: list_tags, get_tag_stats, list_literature
ReadScan(op, d) ==
    CASE op = "list_tags" -> GetAllTags(d)
      [] op = "tag_stats" -> GetTagStats(d)
      [] OTHER -> GetAllLiteratureSummaries(d)

ReadScanCall(p, op) ==
    /\ pc[p] = "idle"
    /\ call' = [call EXCEPT ![p] = [op |-> op]]
    /\ pre' = [pre EXCEPT ![p] = disk]
    /\ wrote' = [wrote EXCEPT ![p] = {}]
    /\ pc' = [pc EXCEPT ![p] = "done"]
    /\ loc' = [loc EXCEPT ![p] = NoLoc]
    /\ ret' = [ret EXCEPT ![p] = Ok(ReadScan(op, disk))]
    /\ UNCHANGED <<disk, tmpfile>>

\* LiteratureService.get_literature
GetLiterature(d, paper_id) ==
    IF GetLiteratureById(d, paper_id) = NoneVal THEN Raise("NotFound")
    ELSE Ok(GetLiteratureById(d, paper_id))

GetLiteratureCall(p, paper_id) ==
    /\ pc[p] = "idle"
    /\ call' = [call EXCEPT ![p] = [op |-> "get_literature", id |-> paper_id]]
    /\ pre' = [pre EXCEPT ![p] = disk]
    /\ wrote' = [wrote EXCEPT ![p] = {}]
    /\ pc' = [pc EXCEPT ![p] = "done"]
    /\ loc' = [loc EXCEPT ![p] = NoLoc]
    /\ ret' = [ret EXCEPT ![p] = GetLiterature(disk, paper_id)]
    /\ UNCHANGED <<disk, tmpfile>>

\* delete_literature_by_id: the outcome for a directory that exists or not;
\* for a missing directory a warning is logged and the method returns
DeleteLiteratureById(d, paper_id) ==
    IF d[paper_id].dir
    THEN [disk |-> [d EXCEPT ![paper_id] = NoUnit], out |-> Ok(NoneVal)]
    ELSE [disk |-> d, out |-> Ok(NoneVal)]

\* LiteratureService.delete_literature
DeleteCall(p, paper_id) ==
    /\ pc[p] = "idle"
    /\ call' = [call EXCEPT ![p] = [op |-> "delete", id |-> paper_id]]
    /\ pre' = [pre EXCEPT ![p] = disk]
    /\ wrote' = [wrote EXCEPT ![p] = {}]
    /\ pc' = [pc EXCEPT ![p] = "done"]
    /\ loc' = [loc EXCEPT ![p] = NoLoc]
    /\ disk' = DeleteLiteratureById(disk, paper_id).disk
    /\ ret' = [ret EXCEPT ![p] = DeleteLiteratureById(disk, paper_id).out]
    /\ UNCHANGED tmpfile

NormUnused ==
    /\ nfiles = <<>>
    /\ nprior = <<>>
    /\ npayload = PayloadNone
    /\ nresult = NotRun
    /\ nagain = NotRun
    /\ npc = "unused"

(***************************************************************************)
(* Spec: the tag and field operations of the repository on records         *)
(* ingested without images, one caller, with crashes.                      *)
(***************************************************************************)
\* the tags callers send ("" is the empty tag); "B" sorts before "a" as it
\* is, after it in lower case
Tags == {"a", "B"}
TagInputs == Tags \cup {""}

\* what the analysis returns for a document: the bibliographic block
PlainAnalysis == [wenxian_xinxi |-> [biaoti |-> "X"]]

\* the uploads of Spec: a file that is no PDF, a PDF without text, a failed
\* analysis, a PDF without images that is analysed
TagUploads ==
    { [op |-> "process_upload", kind |-> k, n |-> 0, analysis |-> PlainAnalysis] :
        k \in {"not_pdf", "no_text", "analysis_error", "ok"} }

TagCalls ==
    { [op |-> o, id |-> i, arg |-> t] :
        o \in {"add_tag", "remove_tag"}, i \in Ids, t \in TagInputs }

\* the file operations of these specifications succeed
NoIOError == {TRUE}

ScanCalls ==
    { [op |-> "rename_tag", old |-> o, new |-> n] : o \in TagInputs, n \in TagInputs }
      \cup { [op |-> "delete_tag", old |-> o, new |-> ""] : o \in TagInputs }

\* the caller of the sequential specifications
Seq1 == {1}

ReadScans == {"list_tags", "tag_stats", "list_literature"}

\* the image metadata payloads of Spec: nothing, a JSON object
PlainPayloads == { PayloadNone, PayloadObject }

Init == InitStore /\ NormUnused /\ TagCaseUnused /\ AnalysisUnused

Next ==
    \/ \E p \in Seq1 : \E up \in TagUploads : UploadCall(p, up, Ids) /\ UNCHANGED pureVars
    \/ \E p \in Seq1 : UploadAnalyze(p, Ids) /\ UNCHANGED pureVars
    \/ \E p \in Seq1 : UploadExtract(p) /\ UNCHANGED pureVars
    \/ \E p \in Seq1 : UploadSaveJson(p, NoIOError) /\ UNCHANGED pureVars
    \/ \E p \in Seq1 : UploadCopyPdf(p, NoIOError) /\ UNCHANGED pureVars
    \/ \E p \in Seq1 : \E c \in TagCalls : RepoCall(p, c) /\ UNCHANGED pureVars
    \/ \E p \in Seq1 : \E c \in ScanCalls : ScanCall(p, c) /\ UNCHANGED pureVars
    \/ \E p \in Seq1 : ScanVisit(p) /\ UNCHANGED pureVars
    \/ \E p \in Seq1 : ScanDone(p) /\ UNCHANGED pureVars
    \/ \E p \in Seq1 : WriteOpen(p) /\ UNCHANGED pureVars
    \/ \E p \in Seq1 : WriteFlush(p) /\ UNCHANGED pureVars
    \/ \E p \in Seq1 : WriteClose(p) /\ UNCHANGED pureVars
    \/ \E p \in Seq1 : Crash(p) /\ UNCHANGED pureVars
    \/ \E p \in Seq1 : Respond(p) /\ UNCHANGED pureVars
    \/ \E p \in Seq1 : \E op \in ReadScans : ReadScanCall(p, op) /\ UNCHANGED pureVars
    \/ \E p \in Seq1 : \E i \in Ids : GetLiteratureCall(p, i) /\ UNCHANGED pureVars
    \/ \E p \in Seq1 : \E i \in Ids : DeleteCall(p, i) /\ UNCHANGED pureVars
    \/ \E p \in Seq1 : \E i \in Ids : \E payload \in PlainPayloads : UpdateImageMetadataCall(p, i, payload) /\ UNCHANGED pureVars
    \/ \E p \in Seq1 : \E i \in Ids : GetImageMetadataCall(p, i) /\ UNCHANGED pureVars
    \/ \E p \in Seq1 : MutLoad(p) /\ UNCHANGED pureVars

Spec == Init /\ [][Next]_vars

(***************************************************************************)
(* Claims about the repository under Spec.                                 *)
(***************************************************************************)
\* the call of p is a mutate of a record whose file was complete at the call
MutatesCommitted(p) ==
    /\ call[p].op \in {"add_tag", "remove_tag"}
    /\ call[p].id \in Readable(pre[p])

\* the text of the record after the call of p
PostContent(p) ==
    Dump(MutateLoadAndTransform(pre[p], call[p].id, call[p].op, call[p].arg).val)

\* C1: while a mutate of a record runs, and after a crash inside it, the
\* record file holds the complete text of the record before the call or the
\* complete text of the record after it, never an empty or partial one.
C1_AtomicMutate ==
    \A p \in Seq1 :
        (pc[p] # "idle" /\ MutatesCommitted(p)) =>
            \/ disk[call[p].id].content = pre[p][call[p].id].content
            \/ disk[call[p].id].content = PostContent(p)

HasDuplicate(tags) ==
    \E j, k \in 1..Len(tags) : j < k /\ tags[j] = tags[k]

\* C10: addTag of a tag the record has and removeTag of a tag it does not
\* have leave custom_tags as it was and return it, and no record's
\* custom_tags holds a tag twice, whatever sequence of addTag, removeTag,
\* renameTagGlobally and deleteTagGlobally ran on records ingested without
\* tags.
C10_TagSetSemantics ==
    /\ \A i \in Readable(disk) : ~HasDuplicate(TagsOf(disk, i))
    /\ \A p \in Seq1 :
          (pc[p] = "done" /\ MutatesCommitted(p) /\ ret[p] # Raise("crashed")
             /\ ((call[p].op = "add_tag")
                   <=> (call[p].arg \in Range(TagsOf(pre[p], call[p].id))))) =>
              /\ ret[p] = Ok(TagsOf(pre[p], call[p].id))
              /\ call[p].id \in Readable(disk)
              /\ TagsOf(disk, call[p].id) = TagsOf(pre[p], call[p].id)

\* addTag of a tag the record already has, next to another tag, has returned
C10_Witness ==
    \E p \in Seq1 :
        /\ pc[p] = "done"
        /\ call[p].op = "add_tag"
        /\ call[p].id \in Readable(pre[p])
        /\ Len(TagsOf(pre[p], call[p].id)) = 2
        /\ call[p].arg = TagsOf(pre[p], call[p].id)[1]
        /\ ret[p].ok

\* C11: addTag and removeTag with the empty tag are refused before the store
\* is reached: the caller gets an error and the record file is not opened for
\* writing.
C11_EmptyTagRejected ==
    \A p \in Seq1 :
        (/\ pc[p] = "done"
         /\ call[p].op \in {"add_tag", "remove_tag"}
         /\ call[p].arg = ""
         /\ call[p].id \in Readable(pre[p])) =>
            /\ ~ret[p].ok
            /\ wrote[p] = {}

\* the rename of p has returned: both tags non-empty, no crash
RenameReturned(p) ==
    /\ pc[p] = "done"
    /\ call[p].op = "rename_tag"
    /\ call[p].old # ""
    /\ call[p].new # ""
    /\ ret[p].ok

Occurrences(tags, tag) == Cardinality({ j \in 1..Len(tags) : tags[j] = tag })

\* after the rename of p no readable record has old, and every record that
\* had old has new exactly once
RenamePostcondition(p) ==
    \A i \in Readable(pre[p]) :
        /\ i \in Readable(disk)
        /\ call[p].old \notin Range(TagsOf(disk, i))
        /\ call[p].old \in Range(TagsOf(pre[p], i))
             => Occurrences(TagsOf(disk, i), call[p].new) = 1

\* C12 as stated: after renameTagGlobally(old, new) returns, for all non-empty
\* old and new, old = new included, no record has tag old and every record
\* that had old has new exactly once.
C12_RenameAnyPair ==
    \A p \in Seq1 : RenameReturned(p) => RenamePostcondition(p)

\* C12: after renameTagGlobally(old, new) returns, for non-empty old and new
\* with old # new, no readable record has tag old and every record that had
\* old has new exactly once.
C12_RenameDistinctPair ==
    \A p \in Seq1 :
        (RenameReturned(p) /\ call[p].old # call[p].new) => RenamePostcondition(p)

\* a rename of a tag to another tag of the same record has returned, with a
\* second record in the corpus
C12_Witness ==
    \E p \in Seq1 :
        /\ RenameReturned(p)
        /\ call[p].old # call[p].new
        /\ Readable(pre[p]) = Ids
        /\ \E i \in Ids : {call[p].old, call[p].new} \subseteq Range(TagsOf(pre[p], i))
        /\ \E i \in Ids : call[p].old \notin Range(TagsOf(pre[p], i))

\* the record i had the tag when the call of p started
HadTag(p, i, tag) == i \in Readable(pre[p]) /\ tag \in Range(TagsOf(pre[p], i))

\* C13: during and after renameTagGlobally(old, new) and deleteTagGlobally(tag)
\* a record whose custom_tags does not contain the target tag is never opened
\* for writing and its file is what it was when the call started.
C13_ScanLeavesOthersUntouched ==
    \A p \in Seq1 :
        (pc[p] # "idle" /\ call[p].op \in {"rename_tag", "delete_tag"}) =>
            \A i \in Ids :
                ~HadTag(p, i, call[p].old) =>
                    /\ i \notin wrote[p]
                    /\ disk[i] = pre[p][i]

\* a global operation has rewritten one record and passed over a readable
\* record without the tag
C13_Witness ==
    \E p \in Seq1 :
        /\ pc[p] = "done"
        /\ call[p].op \in {"rename_tag", "delete_tag"}
        /\ ret[p].ok
        /\ Readable(pre[p]) = Ids
        /\ \E i, j \in Ids :
              /\ wrote[p] = {i}
              /\ TagsOf(pre[p], j) # <<>>
              /\ ~HadTag(p, j, call[p].old)

\* the records of d whose file is missing or does not parse
BadRecords(d) == { i \in DOMAIN d : d[i].dir /\ i \notin Readable(d) }

\* the corpus without its bad records
WithoutBadRecords(d) == [i \in DOMAIN d |-> IF i \in BadRecords(d) THEN NoUnit ELSE d[i]]

\* the file of record i after a global operation on the corpus d (an empty
\* tag makes the operation return the statistics at once)
ContentAfterScan(d, i, c) ==
    IF /\ c.old # "" /\ (c.op = "rename_tag" => c.new # "")
       /\ ScanDecision(d, i, c.op, c.old, c.new).ok
    THEN Dump(ScanDecision(d, i, c.op, c.old, c.new).val)
    ELSE d[i].content

\* C16: in the corpus-wide scans a record whose file is missing or does not
\* parse is skipped: the scan returns normally, its result and its effect on
\* the other records are those of the corpus without the bad record, and the
\* bad record is left as it is.
C16_ScansSkipBadRecords ==
    \A p \in Seq1 :
        /\ (pc[p] = "done" /\ call[p].op \in ReadScans) =>
              ret[p] = Ok(ReadScan(call[p].op, WithoutBadRecords(pre[p])))
        /\ (/\ pc[p] = "done"
            /\ call[p].op \in {"rename_tag", "delete_tag"}
            /\ ret[p] # Raise("crashed")) =>
              /\ ret[p] = Ok(GetTagStats(WithoutBadRecords(disk)))
              /\ \A i \in BadRecords(pre[p]) : disk[i] = pre[p][i]
              /\ \A i \in Readable(pre[p]) :
                    disk[i].content = ContentAfterScan(WithoutBadRecords(pre[p]), i, call[p])

\* a rename has rewritten a record next to one whose file does not parse
C16_Witness ==
    \E p \in Seq1 :
        /\ pc[p] = "done"
        /\ call[p].op = "rename_tag"
        /\ ret[p].ok
        /\ Len(ret[p].val) = 1
        /\ \E i, j \in Ids :
              /\ j \in BadRecords(pre[p])
              /\ pre[p][j].has_json
              /\ i \in wrote[p]
              /\ TagsOf(disk, i) # TagsOf(pre[p], i)

\* list_tags has returned the tags of a corpus with a bad record
C16_WitnessListTags ==
    \E p \in Seq1 :
        /\ pc[p] = "done"
        /\ call[p].op = "list_tags"
        /\ BadRecords(pre[p]) # {}
        /\ ret[p].ok /\ Len(ret[p].val) = 2

\* C17: delete(id) of an id whose storage unit does not exist fails with
\* NotFound; so does the second delete of an id that was just deleted.
C17_DeleteAbsentFails ==
    \A p \in Seq1 :
        (/\ pc[p] = "done"
         /\ call[p].op = "delete"
         /\ ~pre[p][call[p].id].dir) =>
            ret[p] = Raise("NotFound")

PerRecordOps ==
    {"get_literature", "add_tag", "remove_tag", "get_image_metadata",
     "update_image_metadata"}

\* C18: for an id without storage unit every read, addTag, removeTag,
\* getImageMetadata and updateImageMetadata fails with NotFound and leaves
\* the store as it was: no directory and no record file is created.
C18_AbsentIdNotFound ==
    \A p \in Seq1 :
        (/\ pc[p] # "idle"
         /\ call[p].op \in PerRecordOps
         /\ ~pre[p][call[p].id].dir) =>
            /\ pc[p] = "done"
            /\ ret[p] = Raise("NotFound")
            /\ disk = pre[p]
            /\ wrote[p] = {}

\* addTag on an id without storage unit has failed, next to a stored record
C18_Witness ==
    \E p \in Seq1 :
        /\ pc[p] = "done"
        /\ call[p].op = "add_tag"
        /\ call[p].arg # ""
        /\ pre[p][call[p].id] = NoUnit
        /\ Readable(pre[p]) # {}
        /\ ret[p] = Raise("NotFound")

\* updateImageMetadata on an id without storage unit has failed
C18_WitnessImage ==
    \E p \in Seq1 :
        /\ pc[p] = "done"
        /\ call[p].op = "update_image_metadata"
        /\ pre[p][call[p].id] = NoUnit
        /\ ret[p] = Raise("NotFound")

\* C24 (second half): reading one record whose file is not valid JSON fails
\* with an error other than NotFound.
C24_CorruptReadIsHardError ==
    \A p \in Seq1 :
        (/\ pc[p] = "done"
         /\ call[p].op = "get_literature"
         /\ pre[p][call[p].id].has_json
         /\ ~Load(pre[p][call[p].id].content).ok) =>
            /\ ~ret[p].ok
            /\ ret[p] # Raise("NotFound")

\* the names of the tags of the readable records of d
AllTagNames(d) == UNION { Range(TagsOf(d, i)) : i \in Readable(d) }

\* stats has one entry per tag of d, each with the number of readable records
\* that hold the tag, in the order of the lower-cased names
IsTagStatsOf(stats, d) ==
    /\ { stats[j].tag : j \in 1..Len(stats) } = AllTagNames(d)
    /\ \A j, k \in 1..Len(stats) : j # k => stats[j].tag # stats[k].tag
    /\ \A j \in 1..Len(stats) :
          stats[j].count =
            Cardinality({ i \in Readable(d) : stats[j].tag \in Range(TagsOf(d, i)) })
    /\ \A j, k \in 1..Len(stats) :
          j < k => StrRank(Lower(stats[j].tag)) <= StrRank(Lower(stats[k].tag))

\* tags is the union of the tags of d, each once, ascending as they are
IsAllTagsOf(tags, d) ==
    /\ Range(tags) = AllTagNames(d)
    /\ \A j, k \in 1..Len(tags) : j < k => StrRank(tags[j]) < StrRank(tags[k])

\* C25: tagStats returns one entry per tag of the readable records with the
\* number of records holding it, ordered by lower-cased name; listAllTags
\* returns the union of the tags without duplicates in ascending
\* case-sensitive order; a rename returns the tagStats of the corpus it
\* leaves.
C25_TagStatsAndListing ==
    \A p \in Seq1 :
        (pc[p] = "done" /\ ret[p].ok) =>
            /\ call[p].op = "tag_stats" => IsTagStatsOf(ret[p].val, pre[p])
            /\ call[p].op = "list_tags" => IsAllTagsOf(ret[p].val, pre[p])
            /\ call[p].op = "rename_tag" => IsTagStatsOf(ret[p].val, disk)

\* tagStats has returned on a corpus where the two orders differ and one tag
\* is held by two records
C25_Witness ==
    \E p \in Seq1 :
        /\ pc[p] = "done"
        /\ call[p].op = "tag_stats"
        /\ ret[p] = Ok(<<[tag |-> "a", count |-> 2], [tag |-> "B", count |-> 1]>>)

\* listAllTags has returned both tags
C25_WitnessListTags ==
    \E p \in Seq1 :
        /\ pc[p] = "done"
        /\ call[p].op = "list_tags"
        /\ ret[p] = Ok(<<"B", "a">>)

\* a rename that changed a record has returned the stats
C25_WitnessRename ==
    \E p \in Seq1 :
        /\ pc[p] = "done"
        /\ call[p].op = "rename_tag"
        /\ wrote[p] # {}
        /\ ret[p].ok
        /\ Len(ret[p].val) = 2

(***************************************************************************)
(* SpecPar: two callers at once, each on a record of its own: caller 1 on   *)
(* r1, caller 2 on r2.                                                     *)
(***************************************************************************)
OwnId(p) == IF p = 1 THEN "r1" ELSE "r2"

ParUpload == [op |-> "process_upload", kind |-> "ok", n |-> 0, analysis |-> PlainAnalysis]

ParCalls(p) ==
    { [op |-> o, id |-> OwnId(p), arg |-> "a"] : o \in {"add_tag", "remove_tag"} }

InitPar == InitStore /\ NormUnused /\ TagCaseUnused /\ AnalysisUnused

NextPar ==
    \/ \E p \in Callers : UploadCall(p, ParUpload, {OwnId(p)}) /\ UNCHANGED pureVars
    \/ \E p \in Callers : UploadAnalyze(p, {OwnId(p)}) /\ UNCHANGED pureVars
    \/ \E p \in Callers : UploadExtract(p) /\ UNCHANGED pureVars
    \/ \E p \in Callers : UploadSaveJson(p, NoIOError) /\ UNCHANGED pureVars
    \/ \E p \in Callers : UploadCopyPdf(p, NoIOError) /\ UNCHANGED pureVars
    \/ \E p \in Callers : \E c \in ParCalls(p) : RepoCall(p, c) /\ UNCHANGED pureVars
    \/ \E p \in Callers : DeleteCall(p, OwnId(p)) /\ UNCHANGED pureVars
    \/ \E p \in Callers : WriteOpen(p) /\ UNCHANGED pureVars
    \/ \E p \in Callers : WriteFlush(p) /\ UNCHANGED pureVars
    \/ \E p \in Callers : WriteClose(p) /\ UNCHANGED pureVars
    \/ \E p \in Callers : Respond(p) /\ UNCHANGED pureVars

SpecPar == InitPar /\ [][NextPar]_vars

\* the corpus d with every record but i taken away
OnlyRecord(d, i) == [j \in DOMAIN d |-> IF j = i THEN d[j] ELSE NoUnit]

\* the outcome of the mutate of p run alone on its record as the call found it
AloneOutcome(p) ==
    MutateLoadAndTransform(OnlyRecord(pre[p], call[p].id), call[p].id,
                           call[p].op, call[p].arg)

\* C19: operations on distinct ids are independent: a call opens no file but
\* that of its own record, and whatever the other caller does to the other
\* record meanwhile, a mutate, a delete and a create leave their record as
\* they would when run alone.
C19_DistinctIdsIndependent ==
    \A p \in Callers :
        /\ wrote[p] \subseteq {OwnId(p)}
        /\ (pc[p] = "done" /\ call[p].op \in {"add_tag", "remove_tag"}) =>
              IF AloneOutcome(p).ok
              THEN /\ disk[call[p].id].content = Dump(AloneOutcome(p).val)
                   /\ ret[p] = Ok(AloneOutcome(p).val.custom_tags)
              ELSE /\ disk[call[p].id] = pre[p][call[p].id]
                   /\ ret[p] = ServiceOutcome(call[p].op, AloneOutcome(p))
        /\ (pc[p] = "done" /\ call[p].op = "delete") => disk[call[p].id] = NoUnit
        /\ (pc[p] = "done" /\ call[p].op = "process_upload") =>
              /\ disk[OwnId(p)].dir /\ disk[OwnId(p)].pdf
              /\ Load(disk[OwnId(p)].content)
                   = Ok(EnrichAnalysisPayload(call[p].analysis, OwnId(p), ImageFiles(0)))

\* caller 2 has added a tag to r2 while caller 1 is in the middle of writing r1
C19_Witness ==
    /\ pc[2] = "done"
    /\ call[2].op = "add_tag"
    /\ ret[2] = Ok(<<"a">>)
    /\ pc[1] = "write_close"
    /\ call[1].op = "add_tag"
    /\ ~Load(pre[2]["r1"].content).ok
    /\ pre[2]["r1"].has_json
    /\ wrote[1] = {"r1"}

(***************************************************************************)
(* SpecRace: two callers at once on the same record r1.                    *)
(***************************************************************************)
RaceIds == {"r1"}

RaceCalls ==
    { [op |-> o, id |-> "r1", arg |-> "a"] : o \in {"add_tag", "remove_tag"} }

InitRace == InitStore /\ NormUnused /\ TagCaseUnused /\ AnalysisUnused

NextRace ==
    \/ \E p \in Seq1 : UploadCall(p, ParUpload, RaceIds) /\ UNCHANGED pureVars
    \/ \E p \in Seq1 : UploadAnalyze(p, RaceIds) /\ UNCHANGED pureVars
    \/ \E p \in Seq1 : UploadExtract(p) /\ UNCHANGED pureVars
    \/ \E p \in Seq1 : UploadSaveJson(p, NoIOError) /\ UNCHANGED pureVars
    \/ \E p \in Seq1 : UploadCopyPdf(p, NoIOError) /\ UNCHANGED pureVars
    \/ \E p \in Callers : \E c \in RaceCalls : RepoCall(p, c) /\ UNCHANGED pureVars
    \/ \E p \in Callers : WriteOpen(p) /\ UNCHANGED pureVars
    \/ \E p \in Callers : WriteFlush(p) /\ UNCHANGED pureVars
    \/ \E p \in Callers : WriteClose(p) /\ UNCHANGED pureVars
    \/ \E p \in Callers : Respond(p) /\ UNCHANGED pureVars

SpecRace == InitRace /\ [][NextRace]_vars

\* the text a mutate of p writes: its transform applied to what it read
OwnText(p) ==
    Dump(MutateLoadAndTransform(pre[p], call[p].id, call[p].op, call[p].arg).val)

\* C20: when two mutate calls on the same record interleave and both
\* complete, the record file is the text written by one of them (the transform
\* of that call applied to the content it read): the last writer wins, and no
\* other content is reachable.
C20_LastWriterWins ==
    (\A p \in Callers :
        /\ pc[p] = "done"
        /\ call[p].op \in {"add_tag", "remove_tag"}
        /\ ret[p].ok) =>
            \E p \in Callers : disk["r1"].content = OwnText(p)

(***************************************************************************)
(* SpecScanRace: rename_tag_globally by caller 1 and the tag edits of one  *)
(* record by caller 2, any interleaving of their steps.                    *)
(***************************************************************************)
ScanRaceCalls == { [op |-> "rename_tag", old |-> "a", new |-> "b"] }

EditCalls ==
    { [op |-> o, id |-> "r1", arg |-> t] :
        o \in {"add_tag", "remove_tag"}, t \in {"a", "b"} }

Editor == {2}

InitScanRace == InitStore /\ NormUnused /\ TagCaseUnused /\ AnalysisUnused

NextScanRace ==
    \/ \E p \in Seq1 : UploadCall(p, ParUpload, RaceIds) /\ UNCHANGED pureVars
    \/ \E p \in Seq1 : UploadAnalyze(p, RaceIds) /\ UNCHANGED pureVars
    \/ \E p \in Seq1 : UploadExtract(p) /\ UNCHANGED pureVars
    \/ \E p \in Seq1 : UploadSaveJson(p, NoIOError) /\ UNCHANGED pureVars
    \/ \E p \in Seq1 : UploadCopyPdf(p, NoIOError) /\ UNCHANGED pureVars
    \/ \E p \in Seq1 : \E c \in ScanRaceCalls : ScanCall(p, c) /\ UNCHANGED pureVars
    \/ \E p \in Seq1 : ScanVisit(p) /\ UNCHANGED pureVars
    \/ \E p \in Seq1 : ScanDone(p) /\ UNCHANGED pureVars
    \/ \E p \in Editor : \E c \in EditCalls : RepoCall(p, c) /\ UNCHANGED pureVars
    \/ \E p \in Callers : WriteOpen(p) /\ UNCHANGED pureVars
    \/ \E p \in Callers : WriteFlush(p) /\ UNCHANGED pureVars
    \/ \E p \in Callers : WriteClose(p) /\ UNCHANGED pureVars
    \/ \E p \in Callers : Respond(p) /\ UNCHANGED pureVars

SpecScanRace == InitScanRace /\ [][NextScanRace]_vars

\* the tag lists the claim allows after a rename and an edit of a record that
\* held tags: the two sequential orders, or one of the two updates alone
InterleavingOutcomes(tags, scan, edit) ==
    LET R(t) == RenameTags(t, scan.old, scan.new)
        E(t) == Transform(edit.op, edit.arg, [custom_tags |-> t]).val.custom_tags
    IN  { E(R(tags)), R(E(tags)), R(tags), E(tags) }

\* C21: a rename_tag_globally that interleaves with a per-record edit of a
\* record holding the old tag leaves that record with the content of one of
\* the two sequential orders, or with exactly one of the two updates.
C21_RenameEditInterleaving ==
    (/\ pc[1] = "done" /\ call[1].op = "rename_tag" /\ ret[1].ok
     /\ pc[2] = "done" /\ call[2].op \in {"add_tag", "remove_tag"} /\ ret[2].ok
     /\ \A p \in Callers :
           /\ "r1" \in Readable(pre[p])
           /\ call[1].old \in Range(TagsOf(pre[p], "r1")))
      => /\ "r1" \in Readable(disk)
         /\ \E p \in Callers :
               TagsOf(disk, "r1")
                 \in InterleavingOutcomes(TagsOf(pre[p], "r1"), call[1], call[2])

(***************************************************************************)
(* SpecIngest: ingestion with every outcome of the validation, of the      *)
(* analysis and of the two file operations of save_new_literature, and the *)
(* field updates of the stored record; one caller, one id.                 *)
(***************************************************************************)
\* an analysis result that carries custom_tags of its own
TaggedAnalysis == [wenxian_xinxi |-> [biaoti |-> "X"], custom_tags |-> <<"a">>]

IngestUploads ==
    { [op |-> "process_upload", kind |-> k, n |-> n, analysis |-> a] :
        k \in {"not_pdf", "no_text", "analysis_error", "ok"},
        n \in 0..MaxRecordImages, a \in {PlainAnalysis, TaggedAnalysis} }

\* json.dump / shutil.copy of save_new_literature succeed or raise
IOOutcomes == {TRUE, FALSE}

\* the payloads of update_literature_metadata: allow-listed fields, fields of
\* the record outside the allow-list and an unknown key, the two time fields
\* (one of them empty), an unknown key alone
IngestFieldPayloads ==
    { [title |-> "T", year |-> "2020"],
      [journal |-> "J", paper_id |-> "zz", custom_tags |-> <<"q">>,
       image_files |-> <<"zz.png">>, image_metadata |-> <<>>, bogus |-> "v"],
      [upload_time |-> "t1", time_label |-> ""],
      [bogus |-> "v"] }

IngestFieldCalls ==
    { [op |-> "update_literature_metadata", id |-> i, arg |-> m] :
        i \in RaceIds, m \in IngestFieldPayloads }

InitIngest == InitStore /\ NormUnused /\ TagCaseUnused /\ AnalysisUnused

NextIngest ==
    \/ \E p \in Seq1 : \E up \in IngestUploads : UploadCall(p, up, RaceIds) /\ UNCHANGED pureVars
    \/ \E p \in Seq1 : UploadAnalyze(p, RaceIds) /\ UNCHANGED pureVars
    \/ \E p \in Seq1 : UploadExtract(p) /\ UNCHANGED pureVars
    \/ \E p \in Seq1 : UploadSaveJson(p, IOOutcomes) /\ UNCHANGED pureVars
    \/ \E p \in Seq1 : UploadCopyPdf(p, IOOutcomes) /\ UNCHANGED pureVars
    \/ \E p \in Seq1 : \E c \in IngestFieldCalls : RepoCall(p, c) /\ UNCHANGED pureVars
    \/ \E p \in Seq1 : WriteOpen(p) /\ UNCHANGED pureVars
    \/ \E p \in Seq1 : WriteFlush(p) /\ UNCHANGED pureVars
    \/ \E p \in Seq1 : WriteClose(p) /\ UNCHANGED pureVars
    \/ \E p \in Seq1 : \E i \in RaceIds : GetLiteratureCall(p, i) /\ UNCHANGED pureVars
    \/ \E p \in Seq1 : \E i \in RaceIds : DeleteCall(p, i) /\ UNCHANGED pureVars
    \/ \E p \in Seq1 : Respond(p) /\ UNCHANGED pureVars

SpecIngest == InitIngest /\ [][NextIngest]_vars

\* caller p is inside, or done with, an upload that fails: the file is no
\* PDF, has no text, or its analysis fails
FailingUpload(p) ==
    /\ call[p].op = "process_upload"
    /\ call[p].kind \in {"not_pdf", "no_text", "analysis_error"}

\* C22: an ingestion that fails in the validation or in the analysis creates
\* nothing: no id is generated and the store stays as it was at the call
\* (no record directory, no record file), the call reports the failure, and
\* the temporary upload file is gone when the call returns.
C22_FailedIngestionCreatesNothing ==
    \A p \in Seq1 :
        FailingUpload(p) =>
            /\ disk = pre[p]
            /\ wrote[p] = {}
            /\ loc[p].target = ""
            /\ pc[p] = "done" =>
                  /\ ret[p] = IF call[p].kind = "not_pdf"
                              THEN Raise("InvalidUpload:not_a_pdf")
                              ELSE Raise("AnalysisFailure")
                  /\ ~tmpfile

\* a failed analysis has returned while the store holds a record
C22_Witness ==
    /\ FailingUpload(1)
    /\ call[1].kind = "analysis_error"
    /\ pc[1] = "done"
    /\ disk["r1"].has_json

\* a PDF without text has returned
C22_WitnessNoText ==
    /\ FailingUpload(1)
    /\ call[1].kind = "no_text"
    /\ pc[1] = "done"

\* C23: whenever process_upload returns a summary, the storage unit of the
\* new id holds both the record file and the copy of the source file.
C23_UnitCompleteOnSuccess ==
    \A p \in Seq1 :
        (pc[p] = "done" /\ call[p].op = "process_upload" /\ ret[p].ok) =>
            /\ disk[ret[p].val.id].has_json
            /\ disk[ret[p].val.id].pdf

\* the keys of a payload a field update may act on, and the field of the
\* bibliographic block each names
FieldAllowList == {"title", "authors", "year", "journal"}
TimeFields == {"upload_time", "time_label"}

\* field k of the record is the same in before and after (absent in both, or
\* present in both with one value)
SameField(before, after, k) ==
    /\ (k \in DOMAIN before) = (k \in DOMAIN after)
    /\ k \in DOMAIN before => before[k] = after[k]

\* after differs from before only in what payload asks for through the
\* allow-list
OnlyAllowListedChanges(before, after, payload) ==
    LET bib(r) == Get(r, "wenxian_xinxi", EmptyDict)
    IN  /\ \A k \in (DOMAIN before \cup DOMAIN after) \ ({"wenxian_xinxi"} \cup TimeFields) :
              SameField(before, after, k)
        /\ \A t \in DOMAIN bib(before) \cup DOMAIN bib(after) :
              \/ SameField(bib(before), bib(after), t)
              \/ \E k \in DOMAIN payload \cap (FieldAllowList \cup BibKeys) :
                    /\ KeyMap(k) = t
                    /\ t \in DOMAIN bib(after)
                    /\ bib(after)[t] = payload[k]
        /\ \A k \in TimeFields :
              \/ SameField(before, after, k)
              \/ /\ k \in DOMAIN payload
                 /\ k \in DOMAIN after
                 /\ after[k] = payload[k]

\* C26: a field update of a stored record with a JSON object succeeds
\* whatever keys the object has, and changes nothing but the allow-listed
\* fields it names: title, authors, year and journal of the bibliographic
\* block, upload_time and time_label; image_files, image_metadata,
\* custom_tags, paper_id and every other key of the record keep their values.
C26_FieldUpdateFrame ==
    \A p \in Seq1 :
        (/\ pc[p] = "done"
         /\ call[p].op = "update_literature_metadata"
         /\ IsDict(call[p].arg)
         /\ call[p].id \in Readable(pre[p])) =>
            /\ ret[p].ok
            /\ call[p].id \in Readable(disk)
            /\ OnlyAllowListedChanges(Load(pre[p][call[p].id].content).val,
                                      Load(disk[call[p].id].content).val,
                                      call[p].arg)
            /\ \A i \in Ids \ {call[p].id} : disk[i] = pre[p][i]

\* a field update whose payload names the journal next to paper_id,
\* custom_tags, image_files, image_metadata and an unknown key has returned
\* for a record with images and a tag: the journal is set
C26_Witness ==
    /\ pc[1] = "done"
    /\ call[1].op = "update_literature_metadata"
    /\ "bogus" \in DOMAIN call[1].arg
    /\ "paper_id" \in DOMAIN call[1].arg
    /\ ret[1].ok
    /\ "r1" \in Readable(pre[1])
    /\ TagsOf(pre[1], "r1") # <<>>
    /\ Load(pre[1]["r1"].content).val["image_files"] # <<>>
    /\ "qikan" \notin DOMAIN Load(pre[1]["r1"].content).val["wenxian_xinxi"]
    /\ Load(disk["r1"].content).val["wenxian_xinxi"]["qikan"] = "J"

\* a field update with an empty time_label has set upload_time alone
C26_WitnessTime ==
    /\ pc[1] = "done"
    /\ call[1].op = "update_literature_metadata"
    /\ "time_label" \in DOMAIN call[1].arg
    /\ ret[1].ok
    /\ "upload_time" \notin DOMAIN Load(pre[1]["r1"].content).val
    /\ Load(disk["r1"].content).val["upload_time"] = "t1"
    /\ "time_label" \notin DOMAIN Load(disk["r1"].content).val

\* caller p is done with an ingestion of a document whose analysis carried
\* no image metadata, and the record file of the new id was written
IngestedPlain(p) ==
    /\ pc[p] = "done"
    /\ call[p].op = "process_upload"
    /\ ret[p].ok
    /\ "image_metadata" \notin DOMAIN call[p].analysis
    /\ ret[p].val.id \in Readable(disk)

\* metadata is the initial list for image_files: one entry per image, in
\* order, category figure, empty label, numbered from 1
IsInitialMetadata(metadata, image_files) ==
    /\ Len(metadata) = Len(image_files)
    /\ \A j \in 1..Len(metadata) :
          /\ metadata[j].filename = image_files[j]
          /\ metadata[j].category = "figure"
          /\ metadata[j].label = ""
          /\ metadata[j].figure_id = ToStr(j)

\* the stored record of an ingestion without analysis image metadata holds
\* the initial list, which is what the normalizer gives for no prior and no
\* patch
InitialMetadataOnIngest ==
    \A p \in Seq1 :
        IngestedPlain(p) =>
            LET record == Load(disk[ret[p].val.id].content).val
            IN  /\ record.image_files = ImageFiles(call[p].n)
                /\ IsInitialMetadata(record.image_metadata, record.image_files)
                /\ Ok(record.image_metadata) =
                      NormalizeImageMetadataPayload(PayloadNone, record.image_files, <<>>)
                /\ ret[p].val.id \notin { i \in Ids : pre[p][i].dir }

\* C27: after a successful ingestion that extracted n images and whose
\* analysis carried no image metadata, the stored image_metadata is the
\* initial list of length n (category figure, empty label, figure_id the
\* 1-based position), equal to normalize(image_files, no prior, empty
\* patch), and the summary has the new id and an empty tag list.
C27_IngestionInitialRecord ==
    /\ InitialMetadataOnIngest
    /\ \A p \in Seq1 : IngestedPlain(p) => ret[p].val.custom_tags = <<>>

(***************************************************************************)
(* SpecTags: the list computations of rename_tag_globally and              *)
(* delete_tag_globally on the tag list of one record.                      *)
(***************************************************************************)
MaxTags == 3
PureTags == {"a", "b", "c", "d"}

\* the tag lists of a record: no tag twice
TagLists ==
    { tags \in SeqsUpTo(PureTags, MaxTags) :
        \A j, k \in 1..Len(tags) : j # k => tags[j] # tags[k] }

TagCaseInputs ==
    tagcase \in { [pc |-> "input", tags |-> tags, old |-> o, new |-> n, out |-> <<>>] :
                    tags \in TagLists, o \in PureTags, n \in PureTags }

\* rename_tag_globally on a record that has old_tag: lines 238-244
TagRenameApply ==
    /\ tagcase.pc = "input"
    /\ tagcase.tags # <<>> /\ tagcase.old \in Range(tagcase.tags)
    /\ tagcase' = [tagcase EXCEPT !.pc = "renamed",
                     !.out = RenameTags(tagcase.tags, tagcase.old, tagcase.new)]

\* delete_tag_globally on a record that has tag: lines 272-275
TagDeleteApply ==
    /\ tagcase.pc = "input"
    /\ tagcase.tags # <<>> /\ tagcase.old \in Range(tagcase.tags)
    /\ tagcase' = [tagcase EXCEPT !.pc = "deleted",
                     !.out = DeleteTags(tagcase.tags, tagcase.old)]

InitTags == TagCaseInputs /\ StoreUnused /\ NormUnused /\ AnalysisUnused

NextTags ==
    \/ TagRenameApply /\ UNCHANGED <<storeVars, normVars, analysis>>
    \/ TagDeleteApply /\ UNCHANGED <<storeVars, normVars, analysis>>

SpecTags == InitTags /\ [][NextTags]_vars

\* the n-th smallest index of a set of indices
NthIndex(S, n) == CHOOSE x \in S : Cardinality({ y \in S : y < x }) = n - 1

\* old replaced by new at the position of its first occurrence, then every
\* entry that repeats an earlier one dropped
ReplaceFirstThenDedup(tags, old, new) ==
    LET k == CHOOSE j \in 1..Len(tags) :
                 tags[j] = old /\ \A m \in 1..(j - 1) : tags[m] # old
        replaced == [tags EXCEPT ![k] = new]
        kept == { j \in 1..Len(replaced) :
                    \A m \in 1..(j - 1) : replaced[m] # replaced[j] }
    IN  [n \in 1..Cardinality(kept) |-> replaced[NthIndex(kept, n)]]

\* C14: for a record that has old, renameTagGlobally(old, new) gives the tag
\* list with old replaced by new at the position of its first occurrence and
\* later duplicates removed, the other tags in their order; a new already
\* present collapses with it into one entry.
C14_RenameInPlace ==
    tagcase.pc = "renamed" =>
        tagcase.out = ReplaceFirstThenDedup(tagcase.tags, tagcase.old, tagcase.new)

\* old is first, new is last, another tag between them: the two collapse at
\* the first position
C14_Witness ==
    /\ tagcase.pc = "renamed"
    /\ Len(tagcase.tags) = 3
    /\ tagcase.tags[1] = tagcase.old
    /\ tagcase.tags[3] = tagcase.new
    /\ tagcase.out = <<tagcase.new, tagcase.tags[2]>>

\* tags without tag, the other entries in their order
WithoutTag(tags, tag) ==
    LET kept == { j \in 1..Len(tags) : tags[j] # tag }
    IN  [n \in 1..Cardinality(kept) |-> tags[NthIndex(kept, n)]]

\* the delete case of SpecTags: the result is the list without the tag
DeleteKeepsOrder ==
    tagcase.pc = "deleted" => tagcase.out = WithoutTag(tagcase.tags, tagcase.old)

\* C15: after deleteTagGlobally(tag) returns for a non-empty tag, no readable
\* record's custom_tags contains tag, every record keeps its other tags in
\* their order, and the value returned is tagStats() of the resulting corpus.
C15_DeleteTagGlobally ==
    \A p \in Seq1 :
        (/\ pc[p] = "done"
         /\ call[p].op = "delete_tag"
         /\ call[p].old # ""
         /\ ret[p].ok) =>
            /\ \A i \in Readable(disk) : call[p].old \notin Range(TagsOf(disk, i))
            /\ \A i \in Readable(pre[p]) :
                  /\ i \in Readable(disk)
                  /\ TagsOf(disk, i) = WithoutTag(TagsOf(pre[p], i), call[p].old)
            /\ ret[p].val = GetTagStats(disk)

\* the tag was first of two in one record and last of two in the other
C15_Witness ==
    \E p \in Seq1 :
        /\ pc[p] = "done"
        /\ call[p].op = "delete_tag"
        /\ ret[p].ok
        /\ wrote[p] = Ids
        /\ \E i, j \in Ids :
              /\ Len(TagsOf(pre[p], i)) = 2 /\ TagsOf(pre[p], i)[1] = call[p].old
              /\ Len(TagsOf(pre[p], j)) = 2 /\ TagsOf(pre[p], j)[2] = call[p].old
        /\ Len(ret[p].val) = 1
        /\ ret[p].val[1].count = 2

(***************************************************************************)
(* SpecImg: ingestion of one document with images, getImageMetadata,       *)
(* updateImageMetadata and the bibliographic field update on its record,   *)
(* one caller, with crashes.                                               *)
(***************************************************************************)
ImgIds == {"r1"}

\* an analysis result that carries image_metadata of its own: two covers
CoverAnalysis ==
    [wenxian_xinxi |-> [biaoti |-> "X"],
     image_metadata |-> <<[filename |-> ImageName(1), category |-> "cover"],
                          [filename |-> ImageName(2), category |-> "cover"]>>]

ImgUploads ==
    { [op |-> "process_upload", kind |-> "ok", n |-> n, analysis |-> a] :
        n \in 0..MaxRecordImages, a \in {PlainAnalysis, CoverAnalysis} }

\* the payloads a caller sends for a record with image_files: nothing, a JSON
\* object, or a list of up to MaxPatchLen items, each an item for one of the
\* images, an item without filename or an item that is no object
ImgPayloads(image_files) ==
    { PayloadNone, PayloadObject }
      \cup { PayloadList(items) :
               items \in SeqsUpTo(
                   UNION { ItemsFor(image_files[i]) : i \in 1..Len(image_files) }
                     \cup { [category |-> "cover"], NotADict },
                   MaxPatchLen) }

\* the payloads of update_literature_metadata: an object with a title, a
\* JSON value that is no object
FieldPayloads == { [title |-> "T"], NotADict }

FieldCalls ==
    { [op |-> "update_literature_metadata", id |-> i, arg |-> m] :
        i \in ImgIds, m \in FieldPayloads }

\* image_files of the stored record, as the caller sees them
StoredFiles(d, paper_id) ==
    IF GetLiteratureById(d, paper_id) = NoneVal THEN <<>>
    ELSE Get(GetLiteratureById(d, paper_id), "image_files", <<>>)

InitImg == InitStore /\ NormUnused /\ TagCaseUnused /\ AnalysisUnused

NextImg ==
    \/ \E p \in Seq1 : \E up \in ImgUploads : UploadCall(p, up, ImgIds) /\ UNCHANGED pureVars
    \/ \E p \in Seq1 : UploadAnalyze(p, ImgIds) /\ UNCHANGED pureVars
    \/ \E p \in Seq1 : UploadExtract(p) /\ UNCHANGED pureVars
    \/ \E p \in Seq1 : UploadSaveJson(p, NoIOError) /\ UNCHANGED pureVars
    \/ \E p \in Seq1 : UploadCopyPdf(p, NoIOError) /\ UNCHANGED pureVars
    \/ \E p \in Seq1 : \E c \in FieldCalls : RepoCall(p, c) /\ UNCHANGED pureVars
    \/ \E p \in Seq1 : \E i \in ImgIds : pc[p] = "idle" /\ \E payload \in ImgPayloads(StoredFiles(disk, i)) : UpdateImageMetadataCall(p, i, payload) /\ UNCHANGED pureVars
    \/ \E p \in Seq1 : \E i \in ImgIds : GetImageMetadataCall(p, i) /\ UNCHANGED pureVars
    \/ \E p \in Seq1 : MutLoad(p) /\ UNCHANGED pureVars
    \/ \E p \in Seq1 : WriteOpen(p) /\ UNCHANGED pureVars
    \/ \E p \in Seq1 : WriteFlush(p) /\ UNCHANGED pureVars
    \/ \E p \in Seq1 : WriteClose(p) /\ UNCHANGED pureVars
    \/ \E p \in Seq1 : Crash(p) /\ UNCHANGED pureVars
    \/ \E p \in Seq1 : Respond(p) /\ UNCHANGED pureVars

SpecImg == InitImg /\ [][NextImg]_vars

(***************************************************************************)
(* Claims about the service under SpecImg.                                 *)
(***************************************************************************)
\* C2: when the transform handed to mutate raises, mutate raises the same
\* error, no write step is reached and the record file is what it was before
\* the call.
C2_TransformErrorWritesNothing ==
    \A p \in Seq1 :
        (/\ pc[p] = "done"
         /\ call[p].op = "update_literature_metadata"
         /\ ~IsDict(call[p].arg)
         /\ call[p].id \in Readable(pre[p])) =>
            /\ ret[p] = Raise("AttributeError")
            /\ wrote[p] = {}
            /\ disk = pre[p]

\* the field update of a stored record with a payload that is no object has
\* raised
C2_Witness ==
    \E p \in Seq1 :
        /\ pc[p] = "done"
        /\ call[p].op = "update_literature_metadata"
        /\ call[p].arg = NotADict
        /\ call[p].id \in Readable(pre[p])
        /\ "image_files" \in DOMAIN Load(pre[p][call[p].id].content).val
        /\ ret[p] = Raise("AttributeError")

StoredRecord(d, paper_id) == Load(d[paper_id].content).val

\* I1 of a record: image_metadata is as long as image_files and entry i
\* carries the filename of image i
I1(record) ==
    /\ Len(record.image_metadata) = Len(record.image_files)
    /\ \A j \in 1..Len(record.image_files) :
          record.image_metadata[j].filename = record.image_files[j]

C4_AtMostOneCover ==
    \A i \in Readable(disk) :
        Cardinality({ j \in 1..Len(StoredRecord(disk, i).image_metadata) :
                        StoredRecord(disk, i).image_metadata[j].category = "cover" }) <= 1

\* the patch fails validation for a record with images: no list, an item that
\* is no object or has no filename, or two cover candidates
InvalidPatch(payload, record) ==
    /\ record.image_files # <<>>
    /\ \/ ~WellFormedPayload(payload)
       \/ Cardinality(CoverCandidates(payload, record.image_files,
                                      record.image_metadata)) >= 2

ValidationErrors ==
    { Raise("InvalidUpload:not_a_list"), Raise("InvalidUpload:item_not_object"),
      Raise("InvalidUpload:missing_filename"), Raise("InvalidUpload:second_cover") }

\* C9: an updateImageMetadata call whose patch fails validation raises the
\* validation error before any store write: nothing was opened for writing
\* and the record reads back as before the call.
C9_ValidationFailureWritesNothing ==
    \A p \in Seq1 :
        (/\ pc[p] = "done"
         /\ call[p].op = "update_image_metadata"
         /\ call[p].id \in Readable(pre[p])) =>
            /\ InvalidPatch(call[p].arg, StoredRecord(pre[p], call[p].id))
                 <=> ret[p] \in ValidationErrors
            /\ ret[p] \in ValidationErrors =>
                 /\ wrote[p] = {}
                 /\ disk = pre[p]
                 /\ GetLiteratureById(disk, call[p].id)
                      = GetLiteratureById(pre[p], call[p].id)

\* a patch marking two images cover was refused (scenario C)
C9_Witness ==
    \E p \in Seq1 :
        /\ pc[p] = "done"
        /\ call[p].op = "update_image_metadata"
        /\ call[p].id \in Readable(pre[p])
        /\ I1(StoredRecord(pre[p], call[p].id))
        /\ call[p].arg.kind = "list"
        /\ Len(call[p].arg.items) = 2
        /\ WellFormedPayload(call[p].arg)
        /\ call[p].arg.items[1].filename # call[p].arg.items[2].filename
        /\ AskedCategory(call[p].arg.items[1]) = "cover"
        /\ AskedCategory(call[p].arg.items[2]) = "cover"
        /\ ret[p] = Raise("InvalidUpload:second_cover")

\* the filenames the patch mentions
Mentioned(payload) ==
    { PayloadItems(payload)[j].filename :
        j \in { k \in 1..Len(PayloadItems(payload)) :
                  IsDict(PayloadItems(payload)[k])
                    /\ "filename" \in DOMAIN PayloadItems(payload)[k] } }

\* every entry of before whose filename the patch does not mention is in
\* after with its label and its category
UnmentionedKept(before, after, payload) ==
    \A j \in 1..Len(before) :
        before[j].filename \notin Mentioned(payload) =>
            \E k \in 1..Len(after) :
                /\ after[k].filename = before[j].filename
                /\ after[k].category = before[j].category
                /\ after[k].label = GetOr(before[j], "label", "")

\* caller p is done with a successful updateImageMetadata of a record that
\* was readable at the call
UpdatedImageMetadata(p) ==
    /\ pc[p] = "done"
    /\ call[p].op = "update_image_metadata"
    /\ ret[p].ok
    /\ call[p].id \in Readable(pre[p])

\* the fields of the record other than image_metadata are as before the call
OnlyImageMetadataChanged(p) ==
    LET before == StoredRecord(pre[p], call[p].id)
        after == StoredRecord(disk, call[p].id)
    IN  /\ call[p].id \in Readable(disk)
        /\ DOMAIN after = DOMAIN before
        /\ \A k \in DOMAIN before \ {"image_metadata"} : after[k] = before[k]
        /\ after.image_metadata = ret[p].val

\* C30: a successful updateImageMetadata changes only image_metadata
\* (image_files, custom_tags, paper_id and every other field of the record
\* are as before), and every entry whose filename the patch does not mention
\* keeps its label and its category.
C30_UpdateImageMetadataFrame ==
    \A p \in Seq1 :
        UpdatedImageMetadata(p) =>
            /\ OnlyImageMetadataChanged(p)
            /\ UnmentionedKept(StoredRecord(pre[p], call[p].id).image_metadata,
                               StoredRecord(disk, call[p].id).image_metadata,
                               call[p].arg)

\* the same for the records whose stored image_metadata had one entry per
\* image at the call
FrameOnAlignedRecords ==
    \A p \in Seq1 :
        (UpdatedImageMetadata(p) /\ I1(StoredRecord(pre[p], call[p].id))) =>
            /\ OnlyImageMetadataChanged(p)
            /\ UnmentionedKept(StoredRecord(pre[p], call[p].id).image_metadata,
                               StoredRecord(disk, call[p].id).image_metadata,
                               call[p].arg)

\* scenario B: the second image is marked cover and the first keeps figure 1
ScenarioB ==
    \E p \in Seq1 :
        /\ UpdatedImageMetadata(p)
        /\ Len(ret[p].val) = 2
        /\ Mentioned(call[p].arg) = {ImageName(2)}
        /\ ret[p].val[2].category = "cover"
        /\ ret[p].val[2].figure_id = ""
        /\ ret[p].val[1].category = "figure"
        /\ ret[p].val[1].figure_id = "1"

(***************************************************************************)
(* SpecLazy: records written by the upload route of app.py, which stores   *)
(* no image_metadata, next to records ingested by the service; reads and   *)
(* updates of the image metadata of one record, one caller, with crashes.  *)
(***************************************************************************)
\* an analysis result with an empty image_metadata list
EmptyMetaAnalysis == [wenxian_xinxi |-> [biaoti |-> "X"], image_metadata |-> <<>>]

AppUploads ==
    { [op |-> "app_upload", kind |-> k, n |-> n, analysis |-> a] :
        k \in {"not_pdf", "no_text", "analysis_error", "ok"},
        n \in 0..MaxRecordImages, a \in {PlainAnalysis, EmptyMetaAnalysis} }

\* upload_and_analyze_pdf of app.py: the checks, the analysis, then the record
\* is stored with paper_id, an empty custom_tags and image_files, and with
\* the image_metadata of the analysis result only if it has one; the
\* temporary file is removed in the finally clause
AppUpload(p, up, ids) ==
    /\ pc[p] = "idle"
    /\ call' = [call EXCEPT ![p] = up]
    /\ pre' = [pre EXCEPT ![p] = disk]
    /\ pc' = [pc EXCEPT ![p] = "done"]
    /\ loc' = [loc EXCEPT ![p] = NoLoc]
    /\ tmpfile' = tmpfile
    /\ IF up.kind # "ok"
       THEN /\ ret' = [ret EXCEPT ![p] =
                         IF up.kind = "not_pdf" THEN Raise("InvalidUpload:not_a_pdf")
                         ELSE Raise("AnalysisFailure")]
            /\ wrote' = [wrote EXCEPT ![p] = {}]
            /\ disk' = disk
       ELSE \E i \in ids :
               LET record == Put(Put(Put(up.analysis, "paper_id", i),
                                     "custom_tags", <<>>),
                                 "image_files", ImageFiles(up.n))
               IN  /\ ~disk[i].dir
                   /\ disk' = [disk EXCEPT ![i] = [dir |-> TRUE, has_json |-> TRUE,
                                                    content |-> Dump(record),
                                                    pdf |-> TRUE]]
                   /\ wrote' = [wrote EXCEPT ![p] = {i}]
                   /\ ret' = [ret EXCEPT ![p] = Ok(BuildSummary(record, "upload.pdf"))]

InitLazy == InitStore /\ NormUnused /\ TagCaseUnused /\ AnalysisUnused

NextLazy ==
    \/ \E p \in Seq1 : \E up \in AppUploads : AppUpload(p, up, ImgIds) /\ UNCHANGED pureVars
    \/ \E p \in Seq1 : \E up \in ImgUploads : UploadCall(p, up, ImgIds) /\ UNCHANGED pureVars
    \/ \E p \in Seq1 : UploadAnalyze(p, ImgIds) /\ UNCHANGED pureVars
    \/ \E p \in Seq1 : UploadExtract(p) /\ UNCHANGED pureVars
    \/ \E p \in Seq1 : UploadSaveJson(p, NoIOError) /\ UNCHANGED pureVars
    \/ \E p \in Seq1 : UploadCopyPdf(p, NoIOError) /\ UNCHANGED pureVars
    \/ \E p \in Seq1 : \E i \in ImgIds : GetImageMetadataCall(p, i) /\ UNCHANGED pureVars
    \/ \E p \in Seq1 : \E i \in ImgIds : \E payload \in PlainPayloads : UpdateImageMetadataCall(p, i, payload) /\ UNCHANGED pureVars
    \/ \E p \in Seq1 : MutLoad(p) /\ UNCHANGED pureVars
    \/ \E p \in Seq1 : WriteOpen(p) /\ UNCHANGED pureVars
    \/ \E p \in Seq1 : WriteFlush(p) /\ UNCHANGED pureVars
    \/ \E p \in Seq1 : WriteClose(p) /\ UNCHANGED pureVars
    \/ \E p \in Seq1 : \E i \in ImgIds : DeleteCall(p, i) /\ UNCHANGED pureVars
    \/ \E p \in Seq1 : Crash(p) /\ UNCHANGED pureVars
    \/ \E p \in Seq1 : Respond(p) /\ UNCHANGED pureVars

SpecLazy == InitLazy /\ [][NextLazy]_vars

\* caller p is done with a getImageMetadata that returned, on a record that
\* was readable at the call
GotImageMetadata(p) ==
    /\ pc[p] = "done"
    /\ call[p].op = "get_image_metadata"
    /\ ret[p].ok
    /\ call[p].id \in Readable(pre[p])

\* the image_metadata the record of the call held at the call ([] if none)
StoredMetadataBefore(p) ==
    Get(StoredRecord(pre[p], call[p].id), "image_metadata", <<>>)

\* C31: getImageMetadata on a record whose stored image_metadata is missing
\* or empty returns the default list of image_files and has written it to the
\* record through mutate, so that the stored record satisfies I1 and I3; on a
\* record with a non-empty stored list it returns that list and writes
\* nothing.
C31_LazyDefaultOnRead ==
    \A p \in Seq1 :
        GotImageMetadata(p) =>
            IF StoredMetadataBefore(p) = <<>>
            THEN LET before == StoredRecord(pre[p], call[p].id)
                     after == StoredRecord(disk, call[p].id)
                 IN  /\ IsInitialMetadata(ret[p].val, Get(before, "image_files", <<>>))
                     /\ wrote[p] = {call[p].id}
                     /\ call[p].id \in Readable(disk)
                     /\ after.image_metadata = ret[p].val
                     /\ \A k \in DOMAIN before \ {"image_metadata"} : after[k] = before[k]
                     /\ I1(after)
                     /\ I3(after.image_metadata)
            ELSE /\ ret[p].val = StoredMetadataBefore(p)
                 /\ wrote[p] = {}
                 /\ disk = pre[p]

\* a read of a record stored without image_metadata, with two images, has
\* returned the default list
C31_Witness ==
    /\ GotImageMetadata(1)
    /\ "image_metadata" \notin DOMAIN StoredRecord(pre[1], "r1")
    /\ Len(ret[1].val) = 2
    /\ StoredRecord(disk, "r1").image_metadata = ret[1].val

\* a read of a record with a stored list has returned it
C31_WitnessStored ==
    /\ GotImageMetadata(1)
    /\ StoredMetadataBefore(1) # <<>>
    /\ ret[1].val = StoredMetadataBefore(1)

\* a read of a record whose stored list is empty
C31_WitnessEmpty ==
    /\ GotImageMetadata(1)
    /\ "image_metadata" \in DOMAIN StoredRecord(pre[1], "r1")
    /\ StoredMetadataBefore(1) = <<>>
    /\ Len(ret[1].val) = 1

(***************************************************************************)
(* SpecAnalyze: analyze_text_with_deepseek (src/analysis_core.py), the     *)
(* retry loop around the request to the analysis API.                      *)
(***************************************************************************)
\* retries of the calls examined: 0..MaxAttempts (the default is 3)
MaxAttempts == 3

\* the default of the delay argument, in seconds
DefaultDelay == 10

\* api_key: empty, without "sk-", or of the expected form
KeyKinds == {"empty", "no_sk", "sk"}

\* what one attempt meets: a response whose content is JSON; a response
\* without JSON; HTTP 401; another HTTP error status; a timeout or a
\* connection error of requests.post; a response body that is not of the
\* expected shape or a fenced block that json.loads rejects
HttpFailures == {"http_429", "http_500"}
OtherFailures == {"timeout", "connection_error", "bad_body"}
AttemptOutcomes == {"json", "no_json", "http_401"} \cup HttpFailures \cup OtherFailures

Value(v) == [kind |-> "value", val |-> v]
ErrorValue(message) == [kind |-> "error_value", error |-> message]
NoResult == [kind |-> "none"]

AnalyzeInputs ==
    analysis \in { [pc |-> "called", api_key |-> k, retries |-> r,
                    delay |-> DefaultDelay, attempt |-> 0, seen |-> <<>>,
                    waits |-> <<>>, result |-> NoResult] :
                    k \in KeyKinds, r \in 0..MaxAttempts }

\* if not api_key or "sk-" not in api_key: return {"error": ...}
CheckKey ==
    /\ analysis.pc = "called"
    /\ analysis' = IF analysis.api_key # "sk"
                   THEN [analysis EXCEPT !.pc = "done",
                            !.result = ErrorValue("Invalid API Key provided")]
                   ELSE [analysis EXCEPT !.pc = "attempt"]

\* one iteration of for attempt in range(retries): the request, and what the
\* try block or the except clause that catches its failure does; time.sleep
\* is the wait recorded in waits
Attempt(outcome) ==
    /\ analysis.pc = "attempt"
    /\ analysis.attempt < analysis.retries
    /\ analysis' =
         LET a == [analysis EXCEPT !.attempt = @ + 1, !.seen = Append(@, outcome)]
         IN  CASE outcome = "json" ->
                    [a EXCEPT !.pc = "done", !.result = Value("parsed_json")]
               [] outcome = "no_json" ->
                    [a EXCEPT !.pc = "done",
                              !.result = ErrorValue("AI response was not valid JSON")]
               [] outcome = "http_401" ->
                    [a EXCEPT !.pc = "done",
                              !.result = ErrorValue("401 Unauthorized - Invalid API Key")]
               [] outcome \in HttpFailures ->
                    [a EXCEPT !.waits = Append(@, analysis.delay),
                              !.delay = 2 * analysis.delay]
               [] OTHER ->
                    [a EXCEPT !.waits = Append(@, analysis.delay)]

\* the loop is over: return {"error": "API analysis failed after multiple
\* retries"}
Exhausted ==
    /\ analysis.pc = "attempt"
    /\ analysis.attempt = analysis.retries
    /\ analysis' = [analysis EXCEPT !.pc = "done",
                       !.result = ErrorValue("API analysis failed after multiple retries")]

InitAnalyze == AnalyzeInputs /\ StoreUnused /\ NormUnused /\ TagCaseUnused

NextAnalyze ==
    \/ CheckKey /\ UNCHANGED <<storeVars, normVars, tagcase>>
    \/ \E outcome \in AttemptOutcomes : Attempt(outcome) /\ UNCHANGED <<storeVars, normVars, tagcase>>
    \/ Exhausted /\ UNCHANGED <<storeVars, normVars, tagcase>>

SpecAnalyze == InitAnalyze /\ [][NextAnalyze]_vars

\* the steps of the call are taken: the interpreter runs the loop, and
\* requests.post returns or raises within its timeout
FairAnalyze == SpecAnalyze /\ WF_vars(NextAnalyze)

\* the call makes at most retries attempts, every failed attempt that is
\* retried is followed by one wait, and a finished call has a value
AttemptsBounded ==
    /\ analysis.attempt <= analysis.retries
    /\ Len(analysis.seen) = analysis.attempt
    /\ analysis.pc = "done" => analysis.result.kind \in {"value", "error_value"}
    /\ analysis.pc # "done" => analysis.result = NoResult

\* an authentication failure ends the call at once: the key check before any
\* attempt, a 401 at the attempt that met it
AuthFailureIsTerminal ==
    /\ (analysis.pc # "called" /\ analysis.api_key # "sk") =>
          /\ analysis.pc = "done"
          /\ analysis.attempt = 0
          /\ analysis.result = ErrorValue("Invalid API Key provided")
    /\ \A k \in 1..Len(analysis.seen) :
          analysis.seen[k] = "http_401" =>
             /\ k = Len(analysis.seen)
             /\ analysis.pc = "done"
             /\ analysis.result = ErrorValue("401 Unauthorized - Invalid API Key")

\* every wait is twice the one before it
WaitsDouble ==
    \A k \in 1..(Len(analysis.waits) - 1) :
        analysis.waits[k + 1] = 2 * analysis.waits[k]

\* when all attempts failed the call has returned the error value
AllFailedGivesErrorValue ==
    (analysis.pc = "done" /\ Len(analysis.waits) = analysis.retries
       /\ analysis.api_key = "sk") =>
        analysis.result = ErrorValue("API analysis failed after multiple retries")

\* the safety part without the doubling of the waits
RetryLoopSafety == AttemptsBounded /\ AuthFailureIsTerminal /\ AllFailedGivesErrorValue

\* the call ends
AnalyzeTerminates == <>(analysis.pc = "done")

\* C32: the analysis call makes at most the configured number of attempts
\* and ends with a value, never an exception; an invalid key or an HTTP 401
\* ends it at once with an error value; every wait after a failed attempt is
\* twice the wait before it; when all attempts fail the error value is
\* returned.
C32_BoundedRetryWithBackoff ==
    /\ AttemptsBounded
    /\ AuthFailureIsTerminal
    /\ WaitsDouble
    /\ AllFailedGivesErrorValue

=============================================================================
